---- MODULE Spec2Model ----
(***************************************************************************)
(* A model of the message-handling core of the Twitch/Discord AI bot:      *)
(*   - MessageHandler  (utils/message_handler.py): conversation history,   *)
(*     process_message, handle_command and the command handlers;           *)
(*   - OllamaClient    (src/ollama_integration.py): persona / language /   *)
(*     knowledge state and the retry loop of generate_response;            *)
(*   - the command registrations of the Discord and Twitch adapters and    *)
(*     the Discord adapter's streamed reply (src/discord_bot.py);          *)
(*   - MemoryManager   (utils/memory_manager.py): storing, duplicate       *)
(*     suppression, search and text splitting;                             *)
(*   - IntentDetector  (utils/nlp/intent_detection.py): the guideline      *)
(*     documents and their reload on a language switch.                    *)
(*                                                                         *)
(* Texts are sequences of lexemes (strings); the empty text is <<>> and    *)
(* concatenation is \o.  Coroutines are modelled at their suspension       *)
(* points: an action runs a handler from one await to the next.            *)
(***************************************************************************)
EXTENDS Integers, Sequences, FiniteSets, TLC

VARIABLES
    conversation_history,   \* MessageHandler.conversation_history: key -> list of turns
    stored,                 \* history variable: every turn ever stored, per key
    current_persona,        \* OllamaClient.current_persona
    current_language,       \* OllamaClient.current_language
    active_knowledge,       \* OllamaClient.active_knowledge (ordered list of names)
    channel_guidelines,     \* IntentDetector.channel_guidelines
    guideline_files,        \* the durable guideline document of each language
    tasks,                  \* the handlers suspended at an await, by arrival number
    nmsgs,                  \* number of inbound messages received so far
    persona_cmd,            \* history variable: persona of the last successful persona command
    last,                   \* history variable: the most recently finished handler call
    gr_pc,                  \* generate_response: position in the retry loop
    gr_attempt,             \* generate_response: loop variable `attempt`
    gr_delay,               \* generate_response: local `retry_delay`
    gr_sleeps,              \* history variable: the delays slept so far, in order
    gr_log,                 \* history variable: the backend outcome of each attempt made
    gr_ret,                 \* generate_response: the value returned
    stream,                 \* generate_response_stream: one run of the generator
    hc,                     \* main: the start-up health check and the bots constructed
    am,                     \* analyze_message: one call of the classifier
    system_prompt,          \* the system prompt of the last request sent to the backend
    loop,                   \* the event loop: who holds the thread, where each handler stands
    client_ret,             \* the last call made on the client directly, and what it returned
    mm,                     \* MemoryManager: enabled flag, the two collections, the last call
    ms,                     \* search_memory: one call against the engine's answers
    cm,                     \* handle_ai_request: one message cleaned and handed on
    sx,                     \* _split_text: one call, the text and the chunks cut from it
    dc,                     \* DiscordBot.on_message: the streamed reply as sent and edited in the channel
    rt,                     \* process_message: one call routed, what it called and what came back
    gd                      \* IntentDetector: the guideline documents on disk and the guidelines in memory

handlerVars == <<current_persona, current_language, active_knowledge,
                 channel_guidelines, guideline_files, tasks, nmsgs, persona_cmd, last>>
histVars == <<conversation_history, stored>>
grVars == <<gr_pc, gr_attempt, gr_delay, gr_sleeps, gr_log, gr_ret>>
clientVars == <<stream, hc, am, system_prompt, loop, client_ret, mm, ms, cm, sx, dc,
                rt, gd>>
\* what the actions of one part leave unchanged
streamFrame == <<histVars, handlerVars, grVars, hc, am, system_prompt, loop,
                 client_ret, mm, ms, cm, sx, dc, rt, gd>>
probeFrame == <<histVars, handlerVars, grVars, stream, system_prompt, loop, client_ret,
                mm, ms, cm, sx, dc, rt, gd>>
promptFrame == <<histVars, grVars, stream, hc, am, loop, mm, ms, channel_guidelines,
                 guideline_files, tasks, nmsgs, persona_cmd, last, cm, sx, dc, rt, gd>>
loopFrame == <<histVars, handlerVars, grVars, stream, hc, am, system_prompt,
               client_ret, mm, ms, cm, sx, dc, rt, gd>>
memFrame == <<histVars, handlerVars, grVars, stream, hc, am, system_prompt, loop,
              client_ret, ms, cm, sx, dc, rt, gd>>
searchFrame == <<histVars, handlerVars, grVars, stream, hc, am, system_prompt, loop,
                 client_ret, mm, cm, sx, dc, rt, gd>>
cleanFrame == <<histVars, handlerVars, grVars, stream, hc, am, system_prompt, loop,
                client_ret, mm, ms, sx, dc, rt, gd>>
splitFrame == <<histVars, handlerVars, grVars, stream, hc, am, system_prompt, loop,
                client_ret, mm, ms, cm, dc, rt, gd>>
discordFrame == <<histVars, handlerVars, grVars, stream, hc, am, system_prompt, loop,
                  client_ret, mm, ms, cm, sx, rt, gd>>
routeFrame == <<histVars, handlerVars, grVars, stream, hc, am, system_prompt, loop,
                client_ret, mm, ms, cm, sx, dc, gd>>
guideFrame == <<histVars, handlerVars, grVars, stream, hc, am, system_prompt, loop,
                client_ret, mm, ms, cm, sx, dc, rt>>
vars == <<histVars, handlerVars, grVars, clientVars>>

(***************************************************************************)
(* Bounds of the model.                                                    *)
(***************************************************************************)
MaxStores == 22        \* store_message calls per key explored by SpecHist
MaxMsgs == 2           \* inbound messages explored by Spec
MaxInflight == 4       \* messages whose handle_ai_request calls are in flight together
MaxLines == 4          \* backend lines read by one run of generate_response_stream

(***************************************************************************)
(* Configuration (config/config.py) and fixed tables.                      *)
(***************************************************************************)
BOT_PREFIX == "!"
AI_TRIGGER_PHRASE == "@bot"
ENABLE_AI_RESPONSE == TRUE
ENABLE_INTENT_DETECTION == TRUE
DISCORD_MASTER_USER == "dmaster"
TWITCH_MASTER_USER == "tmaster"
AI_PERSONAS == {"default", "streamer", "expert", "comedian", "motivator"}
\* AI_PERSONAS.keys(), in the order of the table
AI_PERSONAS_keys == <<"default", "streamer", "expert", "comedian", "motivator">>
SUPPORTED_LANGUAGES == {"english", "spanish"}
LANGUAGE == "spanish"

Platforms == {"discord", "twitch", "console"}
\* each of the two is the master of one platform and an ordinary user elsewhere
Usernames == {"dmaster", "tmaster"}
ChannelIds == {"chan"}

(***************************************************************************)
(* Conversation history (MessageHandler.store_message).                    *)
(***************************************************************************)
HistoryCap == 20

get_conversation_key(username, channel_id) == <<username, channel_id>>

Keys == {get_conversation_key(u, c) : u \in Usernames, c \in ChannelIds}

\* list[-n:] for n >= 1
LastN(s, n) == IF Len(s) <= n THEN s ELSE SubSeq(s, Len(s) - n + 1, Len(s))

Turn(role, content, msg) == [role |-> role, content |-> content, msg |-> msg]

store_message_keepfirst(h, username, channel_id, turn) ==
    LET conv_key == get_conversation_key(username, channel_id)
        appended == Append(h[conv_key], turn)
    IN  [h EXCEPT ![conv_key] =
            IF Len(appended) > HistoryCap THEN SubSeq(appended, 1, HistoryCap)
            ELSE appended]

\* `turn` carries role and content; its msg field is a history field naming
\* the inbound message the turn belongs to.
store_message(h, username, channel_id, turn) ==
    LET conv_key == get_conversation_key(username, channel_id)
        appended == Append(h[conv_key], turn)
    IN  [h EXCEPT ![conv_key] =
            IF Len(appended) > HistoryCap THEN LastN(appended, HistoryCap)
            ELSE appended]

get_conversation_history(h, username, channel_id) ==
    h[get_conversation_key(username, channel_id)]

EmptyHistory == [k \in Keys |-> <<>>]

\* Python's None where a text is expected
None == <<"<None>">>

(***************************************************************************)
(* OllamaClient.generate_response: the retry loop (lines 131-191).         *)
(*                                                                         *)
(* One attempt of the loop meets one backend outcome:                      *)
(*   kind "timeout"  asyncio.TimeoutError raised by the request            *)
(*   kind "connerr"  aiohttp.ClientError raised by the request             *)
(*   kind "http"     a response with a status and a body                   *)
(* Bodies, by what response.json() and the extraction do with them:        *)
(*   "content"    JSON object with message.content = " answer "            *)
(*   "blank"      JSON object with message.content = "  "                  *)
(*   "nocontent"  JSON object without message.content                      *)
(*   "wrongtype"  Content-Type is not JSON: json() raises ContentTypeError,*)
(*                a subclass of aiohttp.ClientError                        *)
(*   "notjson"    Content-Type JSON, body unparsable: json() raises        *)
(*                json.JSONDecodeError (a ValueError)                      *)
(*   "null"       empty body: json() returns None and the `in` test on it  *)
(*                raises TypeError                                         *)
(***************************************************************************)
max_retries == 2
initial_retry_delay == 1

APOLOGY_HTTP == "Lo siento, estoy teniendo problemas para conectarme a mi cerebro en este momento."
APOLOGY_UNSURE == "No estoy seguro de como responder a eso."
APOLOGY_TIMEOUT == "Lo siento, me esta tomando demasiado tiempo procesar tu mensaje."
APOLOGY_CLIENT == "Lo siento, estoy teniendo problemas tecnicos. Intentemoslo de nuevo mas tarde."
Apologies == {APOLOGY_HTTP, APOLOGY_UNSURE, APOLOGY_TIMEOUT, APOLOGY_CLIENT}

Statuses == {200, 500}
Bodies == {"content", "blank", "nocontent", "wrongtype", "notjson", "null"}
Outcomes ==
    {[kind |-> "timeout", status |-> 0, body |-> "-"],
     [kind |-> "connerr", status |-> 0, body |-> "-"]}
    \cup {[kind |-> "http", status |-> s, body |-> b] : s \in Statuses, b \in Bodies}

\* str.strip() on the contents the bodies carry
Strip(s) ==
    CASE s = " answer " -> "answer"
      [] s = "  " -> ""
      [] OTHER -> s

\* data["message"]["content"] of a body that has it
MessageContent(body) == IF body = "blank" THEN "  " ELSE " answer "

\* what `await response.json()` does with a body
ResponseJson(body) ==
    CASE body \in {"content", "blank"} -> "dict_with_content"
      [] body = "nocontent" -> "dict_without_content"
      [] body = "wrongtype" -> "ContentTypeError"
      [] body = "notjson" -> "JSONDecodeError"
      [] body = "null" -> "None"

GRReturn(v) == [act |-> "return", val |-> v]
GRRaise(e) == [act |-> "raise", val |-> e]
GRRetry == [act |-> "retry", val |-> ""]

\* `if attempt == max_retries: return <apology>` at the end of a failed attempt
LastAttemptReturns(attempt, apology) ==
    IF attempt = max_retries THEN GRReturn(apology) ELSE GRRetry

\* The try block of one loop iteration (lines 137-185) on outcome o.
AttemptBody(attempt, o) ==
    IF o.kind = "timeout" THEN LastAttemptReturns(attempt, APOLOGY_TIMEOUT)
    ELSE IF o.kind = "connerr" THEN LastAttemptReturns(attempt, APOLOGY_CLIENT)
    ELSE IF o.status # 200 /\ attempt = max_retries THEN GRReturn(APOLOGY_HTTP)
    ELSE \* also reached by a non-200 response that is not the last attempt
        LET json == ResponseJson(o.body)
        IN  CASE json = "ContentTypeError" -> LastAttemptReturns(attempt, APOLOGY_CLIENT)
              [] json = "JSONDecodeError" -> GRRaise("JSONDecodeError")
              [] json = "None" -> GRRaise("TypeError")
              [] json = "dict_with_content" -> GRReturn(Strip(MessageContent(o.body)))
              [] json = "dict_without_content" -> LastAttemptReturns(attempt, APOLOGY_UNSURE)

\* `if attempt < max_retries` guarding the sleep (line 188)
SleepsAfter(attempt) == attempt < max_retries

NextDelay_constant(retry_delay) == retry_delay

\* `retry_delay *= 2` (line 191)
NextDelay(retry_delay) == retry_delay * 2

GRInit ==
    /\ gr_pc = "attempt"
    /\ gr_attempt = 0
    /\ gr_delay = initial_retry_delay
    /\ gr_sleeps = <<>>
    /\ gr_log = <<>>
    /\ gr_ret = ""

\* One iteration of `for attempt in range(max_retries + 1)` up to its sleep.
GRAttempt(o) ==
    /\ gr_pc = "attempt"
    /\ gr_attempt <= max_retries
    /\ gr_log' = Append(gr_log, o)
    /\ LET r == AttemptBody(gr_attempt, o)
       IN  /\ gr_pc' = CASE r.act = "return" -> "returned"
                         [] r.act = "raise" -> "raised"
                         [] r.act = "retry" /\ SleepsAfter(gr_attempt) -> "sleep"
                         [] OTHER -> "returned"   \* the loop ends: implicit None
           /\ gr_ret' = CASE r.act \in {"return", "raise"} -> r.val
                          [] r.act = "retry" /\ SleepsAfter(gr_attempt) -> gr_ret
                          [] OTHER -> "<None>"
    /\ UNCHANGED <<gr_attempt, gr_delay, gr_sleeps, histVars, handlerVars, clientVars>>

\* `await asyncio.sleep(retry_delay); retry_delay *= 2`, then the next iteration.
GRSleep ==
    /\ gr_pc = "sleep"
    /\ gr_sleeps' = Append(gr_sleeps, gr_delay)
    /\ gr_delay' = NextDelay(gr_delay)
    /\ gr_attempt' = gr_attempt + 1
    /\ gr_pc' = "attempt"
    /\ UNCHANGED <<gr_log, gr_ret, histVars, handlerVars, clientVars>>

\* Every value generate_response can hand to its caller.
GRTexts == {Strip(MessageContent(b)) : b \in {"content", "blank"}} \cup Apologies

(***************************************************************************)
(* OllamaClient.generate_response_stream (lines 264-335): one run of the   *)
(* async generator.  Contents are sequences of characters.  A backend line *)
(* is one of                                                               *)
(*   kind "blank"    empty after strip(): skipped                          *)
(*   kind "badutf8"  bytes that are not UTF-8: line.decode raises          *)
(*                   UnicodeDecodeError outside the inner try              *)
(*   kind "notjson"  json.loads raises JSONDecodeError: skipped            *)
(*   kind "null"     the JSON value null: `"message" in data` raises       *)
(*                   TypeError                                             *)
(*   kind "json"     a JSON object, with or without message.content (has), *)
(*                   with its "done" key absent, false or true             *)
(***************************************************************************)
MinFragment == 4

APOLOGY_STREAM_TIMEOUT ==
    "Lo siento, me esta tomando demasiado tiempo procesar tu mensaje. Podrias intentar con una pregunta mas simple?"

ContentValues == {<<>>, <<"a">>, <<"b", "c">>, <<"d", "e", "f", "g">>}
DoneValues == {"absent", "false", "true"}

StreamLines ==
    {[kind |-> k, has |-> FALSE, content |-> <<>>, done |-> "absent"] :
        k \in {"blank", "badutf8", "notjson", "null"}}
    \cup {[kind |-> "json", has |-> FALSE, content |-> <<>>, done |-> d] : d \in DoneValues}
    \cup {[kind |-> "json", has |-> TRUE, content |-> c, done |-> d] :
            c \in ContentValues, d \in DoneValues}

PostOutcomes == {"ok", "status", "timeout", "connerr"}

Fragment(text) == [kind |-> "content", text |-> text]
ApologyFragment(text) == [kind |-> "apology", text |-> text]

StreamInit ==
    stream = [pc |-> "post", buffer |-> <<>>, full_response |-> <<>>, yields |-> <<>>,
              received |-> <<>>, nlines |-> 0, failed |-> FALSE, before |-> <<>>]

\* the generator ends after the loop: the fallback is yielded when nothing
\* was received (lines 319-321); the buffer is not looked at again
AfterLoop(s) ==
    [s EXCEPT !.pc = "ended",
              !.yields = IF s.full_response = <<>>
                         THEN Append(@, ApologyFragment(APOLOGY_UNSURE)) ELSE @]

\* an exception that an except clause of the generator catches (lines 323-331)
StreamCaught(s, apology) ==
    [s EXCEPT !.pc = "ended", !.failed = TRUE, !.before = s.yields,
              !.yields = Append(@, ApologyFragment(apology))]

\* an exception that no except clause catches
StreamUncaught(s) ==
    [s EXCEPT !.pc = "raised", !.failed = TRUE, !.before = s.yields]

\* `if len(buffer) >= 4 or "done" in data` (line 305)
YieldsBuffer(buffer, done) == Len(buffer) >= MinFragment \/ done # "absent"

\* the body of `async for line in response.content` on one line (lines 285-317)
StreamLineBody(s, line) ==
    LET s0 == [s EXCEPT !.nlines = @ + 1]
    IN  CASE line.kind \in {"blank", "notjson"} -> s0
          [] line.kind \in {"badutf8", "null"} -> StreamUncaught(s0)
          [] line.kind = "json" ->
                LET takes == line.has /\ line.content # <<>>
                    buf == IF takes THEN s0.buffer \o line.content ELSE s0.buffer
                    out == takes /\ YieldsBuffer(buf, line.done)
                    s1 == [s0 EXCEPT
                             !.full_response = IF takes THEN @ \o line.content ELSE @,
                             !.received = IF takes THEN @ \o line.content ELSE @,
                             !.buffer = IF out THEN <<>> ELSE buf,
                             !.yields = IF out THEN Append(@, Fragment(buf)) ELSE @]
                IN  IF line.done = "true"
                    THEN AfterLoop([s1 EXCEPT
                                      !.buffer = <<>>,
                                      !.yields = IF s1.buffer # <<>>
                                                 THEN Append(@, Fragment(s1.buffer)) ELSE @])
                    ELSE s1

\* session.post and the status test (lines 269-278)
StreamPost(o) ==
    /\ stream.pc = "post"
    /\ stream' = CASE o = "ok" -> [stream EXCEPT !.pc = "reading"]
                   [] o = "status" -> StreamCaught(stream, APOLOGY_HTTP)
                   [] o = "timeout" -> StreamCaught(stream, APOLOGY_STREAM_TIMEOUT)
                   [] o = "connerr" -> StreamCaught(stream, APOLOGY_CLIENT)
    /\ UNCHANGED streamFrame

\* the backend delivers one more line
StreamLine(line) ==
    /\ stream.pc = "reading"
    /\ stream.nlines < MaxLines
    /\ stream' = StreamLineBody(stream, line)
    /\ UNCHANGED streamFrame

\* the backend closes the stream
StreamEof ==
    /\ stream.pc = "reading"
    /\ stream' = AfterLoop(stream)
    /\ UNCHANGED streamFrame

\* reading the stream fails with asyncio.TimeoutError or aiohttp.ClientError
StreamError(e) ==
    /\ stream.pc = "reading"
    /\ stream' = StreamCaught(stream, IF e = "timeout" THEN APOLOGY_STREAM_TIMEOUT
                                      ELSE APOLOGY_CLIENT)
    /\ UNCHANGED streamFrame

NextStream ==
    \/ \E o \in PostOutcomes : StreamPost(o)
    \/ \E line \in StreamLines : StreamLine(line)
    \/ StreamEof
    \/ \E e \in {"timeout", "connerr"} : StreamError(e)

(***************************************************************************)
(* OllamaClient.health_check (lines 611-665) and main (main.py 21-64).     *)
(* Besides the outcomes of generate_response a request can fail with any   *)
(* other exception (kind "other").                                         *)
(***************************************************************************)
ProbeOutcomes == Outcomes \cup {[kind |-> "other", status |-> 0, body |-> "-"]}

health_check_status_only(o) ==
    [is_healthy |-> o.kind = "http" /\ o.status = 200, raised |-> FALSE]

\* health_check on outcome o: is_healthy, and whether an exception leaves it
health_check(o) ==
    LET unhealthy == [is_healthy |-> FALSE, raised |-> FALSE]
    IN  IF o.kind \in {"timeout", "connerr", "other"} THEN unhealthy
        ELSE IF o.status # 200 THEN unhealthy
        ELSE IF ResponseJson(o.body) = "dict_with_content"
        THEN [is_healthy |-> TRUE, raised |-> FALSE]
        ELSE unhealthy   \* ContentTypeError, JSONDecodeError and TypeError are all caught

\* `if not await check_ai_health(): sys.exit(1)`
MainHealthCheck(o) ==
    /\ hc.pc = "start"
    /\ LET r == health_check(o)
       IN  hc' = [hc EXCEPT !.outcome = o, !.is_healthy = r.is_healthy,
                            !.pc = IF r.raised THEN "raised"
                                   ELSE IF r.is_healthy THEN "twitch" ELSE "exited"]
    /\ UNCHANGED <<probeFrame, am>>

\* `if TWITCH_TOKEN: twitch_bot = TwitchBot()`
MainTwitch(has_token) ==
    /\ hc.pc = "twitch"
    /\ hc' = [hc EXCEPT !.pc = "discord",
                        !.bots = IF has_token THEN Append(@, "twitch") ELSE @]
    /\ UNCHANGED <<probeFrame, am>>

\* `if DISCORD_TOKEN: discord_bot = DiscordBot()`, then the bots run
MainDiscord(has_token) ==
    /\ hc.pc = "discord"
    /\ hc' = [hc EXCEPT !.pc = IF hc.bots = <<>> /\ ~has_token THEN "returned" ELSE "running",
                        !.bots = IF has_token THEN Append(@, "discord") ELSE @]
    /\ UNCHANGED <<probeFrame, am>>

(***************************************************************************)
(* OllamaClient.analyze_message (lines 377-436): one call.  Bodies of the  *)
(* /api/generate answer:                                                   *)
(*   "respond"        JSON object, response = "RESPOND: suggestion"        *)
(*   "respond_empty"  JSON object, response = "RESPOND:"                   *)
(*   "ignore"         JSON object, response = "IGNORE"                     *)
(*   "noresponse"     JSON object without a response field                 *)
(*   "wrongtype", "notjson", "null"   as for generate_response             *)
(***************************************************************************)
AnalyzeBodies == {"respond", "respond_empty", "ignore", "noresponse",
                  "wrongtype", "notjson", "null"}

AnalyzeOutcomes ==
    {[kind |-> "timeout", status |-> 0, body |-> "-"],
     [kind |-> "connerr", status |-> 0, body |-> "-"]}
    \cup {[kind |-> "http", status |-> s, body |-> b] : s \in Statuses, b \in AnalyzeBodies}

AMReturn(should_respond, response) ==
    [raised |-> FALSE, should_respond |-> should_respond, response |-> response]
AMRaise == [raised |-> TRUE, should_respond |-> FALSE, response |-> None]

analyze_message(o) ==
    IF o.kind \in {"timeout", "connerr"} THEN AMReturn(FALSE, None)
    ELSE IF o.status # 200 THEN AMReturn(FALSE, None)
    ELSE CASE o.body = "wrongtype" -> AMReturn(FALSE, None)   \* ContentTypeError is a ClientError
           [] o.body = "notjson" -> AMRaise                   \* json.JSONDecodeError
           [] o.body = "null" -> AMRaise                      \* TypeError
           [] o.body = "noresponse" -> AMReturn(FALSE, None)
           [] o.body = "ignore" -> AMReturn(FALSE, None)
           [] o.body = "respond" -> AMReturn(TRUE, <<"suggestion">>)
           [] o.body = "respond_empty" -> AMReturn(TRUE, <<>>)

AnalyzeMessage(o) ==
    /\ am.pc = "call"
    /\ am' = [pc |-> IF analyze_message(o).raised THEN "raised" ELSE "returned",
              outcome |-> o, result |-> analyze_message(o)]
    /\ UNCHANGED <<probeFrame, hc>>

ProbeInit ==
    /\ hc = [pc |-> "start", outcome |-> [kind |-> "-", status |-> 0, body |-> "-"],
             is_healthy |-> FALSE, bots |-> <<>>]
    /\ am = [pc |-> "call", outcome |-> [kind |-> "-", status |-> 0, body |-> "-"],
             result |-> AMReturn(FALSE, None)]

NextProbe ==
    \/ \E o \in ProbeOutcomes : MainHealthCheck(o)
    \/ \E has_token \in BOOLEAN : MainTwitch(has_token)
    \/ \E has_token \in BOOLEAN : MainDiscord(has_token)
    \/ \E o \in AnalyzeOutcomes : AnalyzeMessage(o)

(***************************************************************************)
(* Texts, commands and authorisation (MessageHandler.handle_command).      *)
(***************************************************************************)
\* a Python str as a text: the empty string is the empty text
Txt(s) == IF s = "" THEN <<>> ELSE <<s>>

\* what the adapters test before sending: `if response:`
Truthy(r) == r # None /\ r # <<>>

\* str.lower() on the lexemes used
Lower(w) ==
    CASE w = "PERSONA" -> "persona"
      [] w = "@BOT" -> "@bot"
      [] OTHER -> w

StartsWithPrefix_equal(message) == message = <<BOT_PREFIX>>

\* message.startswith(BOT_PREFIX)
StartsWithPrefix(message) == message # <<>> /\ Head(message) = BOT_PREFIX

\* parts = command_text.strip().split(' ', 1); command = parts[0].lower()
CommandName(command_text) == IF command_text = <<>> THEN "" ELSE Lower(Head(command_text))

\* args = parts[1] if len(parts) > 1 else ""
CommandArgs(command_text) == IF Len(command_text) > 1 THEN Tail(command_text) ELSE <<>>

\* args.strip().lower() used as a table key: a text of several words is no key
ArgKey(args) == IF Len(args) = 1 THEN Lower(args[1]) ELSE "?"

\* parts[1].strip() used as a table key
RawKey(args) == IF Len(args) = 1 THEN args[1] ELSE "?"

CommandNames == {"help", "ping", "ai", "persona", "personas", "ask", "language",
                 "languages", "knowledge", "knowledges", "memory", "intent"}

admin_commands == {"persona", "language", "languages", "knowledge", "knowledges",
                   "memory", "intent"}

is_authorized_any(platform, username) == TRUE

is_authorized(platform, username) ==
    \/ platform = "discord" /\ username = DISCORD_MASTER_USER
    \/ platform = "twitch" /\ username = TWITCH_MASTER_USER

DenialMsg(command) ==
    <<"Lo siento, solo los usuarios administradores pueden ejecutar el comando", command>>
KnowledgeDenialMsg ==
    <<"Lo siento, los comandos de conocimiento son exclusivos para administradores.">>
UnknownCommandMsg(command) == <<"Unknown command:", command>>

(***************************************************************************)
(* The shared state as one record, so that a handler is an operator from   *)
(* the state it finds to the state it leaves.                              *)
(***************************************************************************)
CurrentState ==
    [h |-> conversation_history,
     persona |-> current_persona,
     language |-> current_language,
     knowledge |-> active_knowledge,
     guidelines |-> channel_guidelines,
     files |-> guideline_files,
     pcmd |-> persona_cmd]

Snapshot(st) ==
    [persona |-> st.persona, language |-> st.language,
     knowledge |-> st.knowledge, guidelines |-> st.guidelines]

\* a handler that ran to its return
Fin(st, result, ran, path, asst) ==
    [st |-> st, done |-> TRUE, result |-> result, cont |-> "-", orig |-> "-",
     persona_used |-> "-", ran |-> ran, path |-> path, asst |-> asst, sent |-> <<>>]

\* a handler suspended at an await, to be continued at `cont`
Susp(st, cont, orig, persona_used, ran, path) ==
    [st |-> st, done |-> FALSE, result |-> None, cont |-> cont, orig |-> orig,
     persona_used |-> persona_used, ran |-> ran, path |-> path, asst |-> 0,
     sent |-> <<>>]

(***************************************************************************)
(* OllamaClient: persona, language and knowledge operations.               *)
(***************************************************************************)
KnowledgeScan == <<"k1", "k2">>     \* _scan_knowledge_files(), in scan order
KnowledgeFiles == {KnowledgeScan[i] : i \in 1..Len(KnowledgeScan)}

InSeq(x, s) == \E i \in 1..Len(s) : s[i] = x
RemoveFirst(s, x) ==
    LET i == CHOOSE j \in 1..Len(s) : s[j] = x /\ \A k \in 1..(j - 1) : s[k] # x
    IN  SubSeq(s, 1, i - 1) \o SubSeq(s, i + 1, Len(s))

\* set_persona that takes any name
set_persona_unchecked(st, persona) ==
    [st |-> [st EXCEPT !.persona = persona], ok |-> TRUE,
     msg |-> <<"Personalidad cambiada a", persona>>]

set_persona(st, persona) ==
    IF persona \in AI_PERSONAS
    THEN [st |-> [st EXCEPT !.persona = persona], ok |-> TRUE,
          msg |-> <<"Personalidad cambiada a", persona>>]
    ELSE [st |-> st, ok |-> FALSE,
          msg |-> <<"Personalidad desconocida. Personalidades disponibles", persona>>
                  \o AI_PERSONAS_keys]

set_language(st, language) ==
    IF language \in SUPPORTED_LANGUAGES
    THEN [st |-> [st EXCEPT !.language = language], ok |-> TRUE,
          msg |-> <<"Idioma cambiado a", language>>]
    ELSE [st |-> st, ok |-> FALSE,
          msg |-> <<"Idioma desconocido. Idiomas disponibles", language>>]

\* activate_knowledge without the test of line 580
activate_knowledge_again(st, knowledge_name) ==
    IF knowledge_name \notin KnowledgeFiles
    THEN [st |-> st, ok |-> FALSE, msg |-> <<"Archivo de conocimiento no encontrado", knowledge_name>>]
    ELSE [st |-> [st EXCEPT !.knowledge = Append(@, knowledge_name)], ok |-> TRUE,
          msg |-> <<"Archivo de conocimiento activado", knowledge_name>>]

activate_knowledge(st, knowledge_name) ==
    IF knowledge_name \notin KnowledgeFiles
    THEN [st |-> st, ok |-> FALSE, msg |-> <<"Archivo de conocimiento no encontrado", knowledge_name>>]
    ELSE IF InSeq(knowledge_name, st.knowledge)
    THEN [st |-> st, ok |-> TRUE, msg |-> <<"Archivo de conocimiento ya esta activo", knowledge_name>>]
    ELSE [st |-> [st EXCEPT !.knowledge = Append(@, knowledge_name)], ok |-> TRUE,
          msg |-> <<"Archivo de conocimiento activado", knowledge_name>>]

deactivate_knowledge(st, knowledge_name) ==
    IF ~InSeq(knowledge_name, st.knowledge)
    THEN [st |-> st, ok |-> FALSE, msg |-> <<"Archivo de conocimiento no esta activo", knowledge_name>>]
    ELSE [st |-> [st EXCEPT !.knowledge = RemoveFirst(@, knowledge_name)], ok |-> TRUE,
          msg |-> <<"Archivo de conocimiento desactivado", knowledge_name>>]

RECURSIVE ActivateAll(_, _)
ActivateAll(st, names) ==
    IF names = <<>> THEN st
    ELSE ActivateAll(activate_knowledge(st, Head(names)).st, Tail(names))

\* generate_response up to its first await (lines 81-129): knowledge files are
\* activated when none is active, and the system prompt is built from the
\* persona that is current at that moment.
generate_response_begin(st) ==
    IF st.knowledge = <<>> THEN ActivateAll(st, KnowledgeScan) ELSE st

(***************************************************************************)
(* The system prompt (get_current_persona_prompt, lines 472-499, and       *)
(* generate_response 90-105 / generate_response_stream 219-234), as the    *)
(* sequence of its segments.                                               *)
(***************************************************************************)
Segment(kind, of) == [kind |-> kind, of |-> of]

\* one "--- BEGIN name --- ... --- END name ---" block per active file
RECURSIVE KnowledgeBlocks(_)
KnowledgeBlocks(names) ==
    IF names = <<>> THEN <<>>
    ELSE <<Segment("knowledge", Head(names))>> \o KnowledgeBlocks(Tail(names))

get_current_persona_prompt(st) ==
    <<Segment("language", st.language),
      Segment("persona", st.persona),
      Segment("guidance", "-")>>
    \o KnowledgeBlocks(st.knowledge)
    \o <<Segment("final_language", st.language)>>

\* system_prompt as placed in the payload
BuildSystemPrompt(st, username, platform, memory_context) ==
    get_current_persona_prompt(st)
    \o <<Segment("platform", platform)>>
    \o (IF memory_context # "" THEN <<Segment("memory", memory_context)>> ELSE <<>>)

NoPrompt == [streaming |-> FALSE, segments |-> <<>>]

MemoryContexts == {"", "remembered"}

\* generate_response (streaming FALSE) or generate_response_stream (TRUE) up
\* to the request, called on the client directly
SendPrompt(streaming, memory_context) ==
    LET st1 == generate_response_begin(CurrentState)
    IN  /\ active_knowledge' = st1.knowledge
        /\ system_prompt' = [streaming |-> streaming,
                             segments |-> BuildSystemPrompt(st1, "dmaster", "discord",
                                                            memory_context)]
        /\ client_ret' = [call |-> IF streaming THEN "generate_response_stream"
                                   ELSE "generate_response",
                          arg |-> memory_context, before |-> active_knowledge,
                          ok |-> TRUE, msg |-> <<>>]
        /\ UNCHANGED <<promptFrame, current_persona, current_language>>

\* names a caller may pass: the table's names, a name in another letter
\* case, a name that is in no table
PersonaArgs == AI_PERSONAS \cup {"Default", "pirate"}

NoClientCall == [call |-> "-", arg |-> "-", before |-> "-", ok |-> FALSE, msg |-> <<>>]

ClientSetPersona(persona) ==
    LET r == set_persona(CurrentState, persona)
    IN  /\ current_persona' = r.st.persona
        /\ client_ret' = [call |-> "set_persona", arg |-> persona,
                          before |-> current_persona, ok |-> r.ok, msg |-> r.msg]
        /\ UNCHANGED <<promptFrame, current_language, active_knowledge, system_prompt>>

ClientSetLanguage(language) ==
    LET r == set_language(CurrentState, language)
    IN  /\ current_language' = r.st.language
        /\ client_ret' = [call |-> "set_language", arg |-> language,
                          before |-> current_language, ok |-> r.ok, msg |-> r.msg]
        /\ UNCHANGED <<promptFrame, current_persona, active_knowledge, system_prompt>>

\* names a caller may pass: the files found, and a name no file has
KnowledgeArgs == KnowledgeFiles \cup {"k9"}

ClientSetKnowledge(activate, knowledge_name) ==
    LET r == IF activate THEN activate_knowledge(CurrentState, knowledge_name)
             ELSE deactivate_knowledge(CurrentState, knowledge_name)
    IN  /\ active_knowledge' = r.st.knowledge
        /\ client_ret' = [call |-> IF activate THEN "activate_knowledge"
                                   ELSE "deactivate_knowledge",
                          arg |-> knowledge_name, before |-> active_knowledge,
                          ok |-> r.ok, msg |-> r.msg]
        /\ UNCHANGED <<promptFrame, current_persona, current_language, system_prompt>>

NextPrompt ==
    \/ \E streaming \in BOOLEAN, mc \in MemoryContexts : SendPrompt(streaming, mc)
    \/ \E p \in PersonaArgs : ClientSetPersona(p)
    \/ \E l \in SUPPORTED_LANGUAGES : ClientSetLanguage(l)
    \/ \E a \in BOOLEAN, k \in KnowledgeArgs : ClientSetKnowledge(a, k)

(***************************************************************************)
(* handle_ai_request (lines 404-457) on the event loop, with vector memory *)
(* enabled.  The calls of memory_manager.store_conversation (413, 449) and *)
(* get_relevant_context (424) are plain calls of synchronous functions:    *)
(* the coroutine keeps the thread until they return.  The call of          *)
(* generate_response (435) is awaited: the coroutine gives the thread up.  *)
(*   position "new"              the message has arrived, handler not run  *)
(*            "store_user"       inside store_conversation (role user)     *)
(*            "get_context"      inside get_relevant_context               *)
(*            "llm"              awaiting generate_response                *)
(*            "store_assistant"  inside store_conversation (assistant)     *)
(*            "done"             returned                                  *)
(***************************************************************************)
Handlers == 1..MaxInflight

MemoryCalls == {"store_user", "get_context", "store_assistant"}

\* whether the coroutine gives up the thread while it is at the position
Suspends(position) == position = "llm"

LoopInit == loop = [running |-> 0, at |-> [h \in Handlers |-> "new"]]

\* the thread is taken by handler h, or free, after h reached the position
Holder(h, position) == IF Suspends(position) \/ position = "done" THEN 0 ELSE h

\* the event loop runs the handler of a new message up to its first call
LoopStart(h) ==
    /\ loop.running = 0
    /\ loop.at[h] = "new"
    /\ loop' = [running |-> Holder(h, "store_user"),
                at |-> [loop.at EXCEPT ![h] = "store_user"]]
    /\ UNCHANGED loopFrame

\* a MemoryStore call of handler h returns and h runs on to its next call
LoopMemoryReturns(h) ==
    /\ loop.running \in {0, h}
    /\ loop.at[h] \in MemoryCalls
    /\ LET next == CASE loop.at[h] = "store_user" -> "get_context"
                     [] loop.at[h] = "get_context" -> "llm"
                     [] loop.at[h] = "store_assistant" -> "done"
       IN  loop' = [running |-> Holder(h, next), at |-> [loop.at EXCEPT ![h] = next]]
    /\ UNCHANGED loopFrame

\* generate_response returns to handler h, which runs on to its next call
LoopLlmReturns(h) ==
    /\ loop.running = 0
    /\ loop.at[h] = "llm"
    /\ loop' = [running |-> Holder(h, "store_assistant"),
                at |-> [loop.at EXCEPT ![h] = "store_assistant"]]
    /\ UNCHANGED loopFrame

NextLoop ==
    \/ \E h \in Handlers : LoopStart(h)
    \/ \E h \in Handlers : LoopMemoryReturns(h)
    \/ \E h \in Handlers : LoopLlmReturns(h)

(***************************************************************************)
(* MemoryManager.search_memory (utils/memory_manager.py 201-271): one call. *)
(* The vector engine is a collaborator behind collection.query: its answer *)
(* to a query is a list of at most n_results hits in order of increasing   *)
(* distance, or an exception.  Distances and similarities are in           *)
(* hundredths.                                                             *)
(***************************************************************************)
MEMORY_SIMILARITY_THRESHOLD == 75
MEMORY_MAX_RESULTS == 5
MEMORY_COLLECTION_CONVERSATIONS == "conversations"
MEMORY_COLLECTION_KNOWLEDGE == "knowledge"

\* distances the engine reports: similarity 1.0, the threshold itself, just
\* below the threshold, and a distance above 1.0
DistValues == {0, 25, 30, 150}

\* the limit argument: not given (None), or an integer
Limits == {[given |-> FALSE, n |-> 0]} \cup {[given |-> TRUE, n |-> k] : k \in {0, 1, 3}}

\* collection_name: one of the two names, or None for both
CollectionChoices == {MEMORY_COLLECTION_CONVERSATIONS, MEMORY_COLLECTION_KNOWLEDGE, "None"}

\* max_results = limit or self.max_results
MaxResultsFor(limit) ==
    IF limit.given /\ limit.n # 0 THEN limit.n ELSE MEMORY_MAX_RESULTS

\* the engine's answers to a query for n results
EngineHits(n) ==
    {d \in UNION {[1..k -> DistValues] : k \in 0..n} :
        \A i \in 1..Len(d), j \in 1..Len(d) : i < j => d[i] <= d[j]}

EngineAnswers(n) ==
    {[raised |-> TRUE, distances |-> <<>>]}
    \cup {[raised |-> FALSE, distances |-> d] : d \in EngineHits(n)}

\* similarity = 1.0 - dist if dist <= 1.0 else 0.0
Similarity(dist) == IF dist <= 100 THEN 100 - dist ELSE 0

\* the collections searched, in order
CollectionsSearched(collection_name) ==
    IF collection_name = MEMORY_COLLECTION_CONVERSATIONS
    THEN <<MEMORY_COLLECTION_CONVERSATIONS>>
    ELSE IF collection_name = MEMORY_COLLECTION_KNOWLEDGE
    THEN <<MEMORY_COLLECTION_KNOWLEDGE>>
    ELSE <<MEMORY_COLLECTION_CONVERSATIONS, MEMORY_COLLECTION_KNOWLEDGE>>

\* the hits of one collection that pass the threshold, in the engine's order
RECURSIVE PassingHits(_, _, _)
PassingHits(collection, distances, i) ==
    IF i > Len(distances) THEN <<>>
    ELSE (IF Similarity(distances[i]) >= MEMORY_SIMILARITY_THRESHOLD
          THEN <<[similarity |-> Similarity(distances[i]), collection |-> collection,
                  rank |-> i]>>
          ELSE <<>>)
         \o PassingHits(collection, distances, i + 1)

\* list.sort(key=similarity, reverse=True): stable, highest first
RECURSIVE InsertBySimilarity(_, _)
InsertBySimilarity(x, sorted) ==
    IF sorted = <<>> THEN <<x>>
    ELSE IF Head(sorted).similarity >= x.similarity
    THEN <<Head(sorted)>> \o InsertBySimilarity(x, Tail(sorted))
    ELSE <<x>> \o sorted

RECURSIVE SortBySimilarity(_)
SortBySimilarity(results) ==
    IF results = <<>> THEN <<>>
    ELSE InsertBySimilarity(results[Len(results)],
                            SortBySimilarity(SubSeq(results, 1, Len(results) - 1)))

RECURSIVE GatherResults(_, _)
GatherResults(collections, answers) ==
    IF collections = <<>> THEN <<>>
    ELSE PassingHits(Head(collections), answers[Head(collections)].distances, 1)
         \o GatherResults(Tail(collections), answers)

\* search_memory with the memory enabled; answers gives the engine's answer
\* for each collection
search_memory(collection_name, answers, limit) ==
    LET max_results == MaxResultsFor(limit)
        collections == CollectionsSearched(collection_name)
        results == SortBySimilarity(GatherResults(collections, answers))
    IN  IF \E i \in 1..Len(collections) : answers[collections[i]].raised
        THEN <<>>
        ELSE IF Len(results) > max_results THEN SubSeq(results, 1, max_results)
        ELSE results

SearchInit == ms = [pc |-> "call", collection_name |-> "None",
                    limit |-> [given |-> FALSE, n |-> 0], results |-> <<>>]

SearchMemory(collection_name, limit, conv, know) ==
    /\ ms.pc = "call"
    /\ ms' = [pc |-> "returned", collection_name |-> collection_name, limit |-> limit,
              results |-> search_memory(collection_name,
                             [c \in {MEMORY_COLLECTION_CONVERSATIONS,
                                     MEMORY_COLLECTION_KNOWLEDGE} |->
                                 IF c = MEMORY_COLLECTION_CONVERSATIONS THEN conv ELSE know],
                             limit)]
    /\ UNCHANGED searchFrame

NextSearch ==
    /\ ms.pc = "call"
    /\ \E collection_name \in CollectionChoices, limit \in Limits :
          \E conv \in EngineAnswers(MaxResultsFor(limit)),
             know \in EngineAnswers(MaxResultsFor(limit)) :
             SearchMemory(collection_name, limit, conv, know)

(***************************************************************************)
(* MemoryManager (utils/memory_manager.py): construction, the two          *)
(* collections and the operations on them, against an engine that answers  *)
(* every query.  A record is [content, who]: who is the username of a       *)
(* conversation record and the source of a knowledge record; the timestamp *)
(* in the metadata makes the ids of two insertions differ, so a collection *)
(* is a sequence that may hold a pair twice.                               *)
(***************************************************************************)
MaxMemCalls == 3       \* calls made on one MemoryManager

MemTexts == {"hola", "hola!", "adios"}

\* the engine's distance between two texts, in hundredths
TextDist(a, b) ==
    IF a = b THEN 0
    ELSE IF {a, b} = {"hola", "hola!"} THEN 10
    ELSE 60

\* the knowledge files on disk, each shorter than one chunk
MemFiles == {"faq.txt", "missing.txt"}
FileExists(file) == file = "faq.txt"
FileContent(file) == "adios"

\* how construction ends (lines 35-91)
ConstructOutcomes == {"ok", "no_dependency", "config_off", "init_failed",
                      "collections_failed"}

\* collection.query(query_texts=[text], n_results=n, where=...): the nearest
\* n records, nearest first
RECURSIVE InsertByDist(_, _)
InsertByDist(x, sorted) ==
    IF sorted = <<>> THEN <<x>>
    ELSE IF Head(sorted).dist <= x.dist
    THEN <<Head(sorted)>> \o InsertByDist(x, Tail(sorted))
    ELSE <<x>> \o sorted

RECURSIVE NearestFirst(_, _, _)
NearestFirst(collection, text, who) ==
    IF collection = <<>> THEN <<>>
    ELSE LET x == collection[Len(collection)]
             rest == NearestFirst(SubSeq(collection, 1, Len(collection) - 1), text, who)
         IN  IF who = "None" \/ x.who = who
             THEN InsertByDist([content |-> x.content, who |-> x.who,
                                dist |-> TextDist(text, x.content)], rest)
             ELSE rest

EngineQuery(collection, text, n, who) ==
    LET hits == NearestFirst(collection, text, who)
    IN  IF Len(hits) > n THEN SubSeq(hits, 1, n) ELSE hits

\* _is_duplicate that finds nothing
is_duplicate_never(m, content, collection_name) == FALSE

\* _is_duplicate (344-379)
is_duplicate(m, content, collection_name) ==
    IF ~m.enabled THEN FALSE
    ELSE LET hits == EngineQuery(m[collection_name], content, 1, "None")
         IN  IF hits = <<>> THEN FALSE
             ELSE 100 - hits[1].dist >= MEMORY_SIMILARITY_THRESHOLD

\* the body shared by store_conversation (102-149) and add_knowledge
\* (151-199): r.m is the manager afterwards, r.ret the value returned
StoreIn(m, collection_name, content, who) ==
    IF ~m.enabled THEN [m |-> m, ret |-> FALSE]
    ELSE IF ~is_duplicate(m, content, collection_name)
    THEN [m |-> [m EXCEPT ![collection_name] =
                               Append(@, [content |-> content, who |-> who]),
                          !.engine_ops = @ + 2],
          ret |-> TRUE]
    ELSE [m |-> [m EXCEPT !.engine_ops = @ + 1], ret |-> FALSE]

\* store_conversation without the check of self.enabled
store_conversation_unguarded(m, content, username) ==
    [m |-> [m EXCEPT !.conversations = Append(@, [content |-> content, who |-> username]),
                     !.engine_ops = @ + 2],
     ret |-> TRUE]

store_conversation(m, content, username) ==
    StoreIn(m, MEMORY_COLLECTION_CONVERSATIONS, content, username)

add_knowledge(m, content, source) ==
    StoreIn(m, MEMORY_COLLECTION_KNOWLEDGE, content, source)

\* search_memory (201-271) against the collections of the manager
MemSearch(m, query, collection_name, who, limit) ==
    IF ~m.enabled THEN [ops |-> 0, results |-> <<>>, hits |-> <<>>]
    ELSE LET names == CollectionsSearched(collection_name)
             hits == [c \in {MEMORY_COLLECTION_CONVERSATIONS, MEMORY_COLLECTION_KNOWLEDGE}
                        |-> EngineQuery(m[c], query, MaxResultsFor(limit), who)]
             answers == [c \in DOMAIN hits |->
                           [raised |-> FALSE,
                            distances |-> [i \in 1..Len(hits[c]) |-> hits[c][i].dist]]]
         IN  [ops |-> Len(names),
              results |-> search_memory(collection_name, answers, limit),
              hits |-> hits]

\* the contents of the results, in order
ResultContents(found) ==
    [i \in 1..Len(found.results) |->
        found.hits[found.results[i].collection][found.results[i].rank].content]

\* get_relevant_context (273-342) with the three filters given: the parts of
\* the context string
get_relevant_context(m, query, username) ==
    IF ~m.enabled THEN [ops |-> 0, ret |-> <<>>]
    ELSE LET conv == MemSearch(m, query, MEMORY_COLLECTION_CONVERSATIONS, username,
                               [given |-> TRUE, n |-> 3])
             know == MemSearch(m, query, MEMORY_COLLECTION_KNOWLEDGE, "None",
                               [given |-> TRUE, n |-> 3])
         IN  [ops |-> conv.ops + know.ops,
              ret |-> (IF know.results # <<>>
                       THEN <<"### Informacion relevante:">> \o ResultContents(know)
                       ELSE <<>>)
                      \o (IF conv.results # <<>>
                          THEN <<"### Conversacion anterior relevante:">>
                               \o ResultContents(conv)
                          ELSE <<>>)]

\* import_knowledge_from_file (381-426) on a file of one chunk
import_knowledge_from_file(m, file) ==
    IF ~m.enabled \/ ~FileExists(file) THEN [m |-> m, ret |-> <<0, 0>>]
    ELSE LET r == add_knowledge(m, FileContent(file), file)
         IN  [m |-> r.m, ret |-> <<IF r.ret THEN 1 ELSE 0, 1>>]

NoMemCall == [op |-> "-", content |-> "-", who |-> "-", ret |-> FALSE,
              similar_before |-> FALSE]

MemInit == mm = [pc |-> "new", enabled |-> FALSE, outcome |-> "-",
                 conversations |-> <<>>, knowledge |-> <<>>,
                 engine_ops |-> 0, ncalls |-> 0, prev |-> NoMemCall, call |-> NoMemCall]

\* MemoryManager() (35-91)
MemConstruct(o) ==
    /\ mm.pc = "new"
    /\ mm' = [mm EXCEPT !.pc = "ready", !.enabled = (o = "ok"), !.outcome = o]
    /\ UNCHANGED memFrame

\* the manager after a call, with the call recorded
AfterCall(m, op, content, who, ret, similar_before) ==
    [m EXCEPT !.ncalls = @ + 1,
              !.prev = mm.call,
              !.call = [op |-> op, content |-> content, who |-> who, ret |-> ret,
                        similar_before |-> similar_before]]

MemCallable == mm.pc = "ready" /\ mm.ncalls < MaxMemCalls

MemStoreConversation(content, username) ==
    /\ MemCallable
    /\ LET r == store_conversation(mm, content, username)
       IN  mm' = AfterCall(r.m, "store_conversation", content, username, r.ret,
                           is_duplicate(mm, content, MEMORY_COLLECTION_CONVERSATIONS))
    /\ UNCHANGED memFrame

MemAddKnowledge(content, source) ==
    /\ MemCallable
    /\ LET r == add_knowledge(mm, content, source)
       IN  mm' = AfterCall(r.m, "add_knowledge", content, source, r.ret,
                           is_duplicate(mm, content, MEMORY_COLLECTION_KNOWLEDGE))
    /\ UNCHANGED memFrame

MemSearchMemory(query) ==
    /\ MemCallable
    /\ LET found == MemSearch(mm, query, "None", "None", [given |-> FALSE, n |-> 0])
       IN  mm' = AfterCall([mm EXCEPT !.engine_ops = @ + found.ops], "search_memory",
                           query, "-", ResultContents(found), FALSE)
    /\ UNCHANGED memFrame

MemGetRelevantContext(query, username) ==
    /\ MemCallable
    /\ LET r == get_relevant_context(mm, query, username)
       IN  mm' = AfterCall([mm EXCEPT !.engine_ops = @ + r.ops], "get_relevant_context",
                           query, username, r.ret, FALSE)
    /\ UNCHANGED memFrame

MemImport(file) ==
    /\ MemCallable
    /\ LET r == import_knowledge_from_file(mm, file)
       IN  mm' = AfterCall(r.m, "import_knowledge_from_file", file, "-", r.ret, FALSE)
    /\ UNCHANGED memFrame

NextMem ==
    \/ \E o \in ConstructOutcomes : MemConstruct(o)
    \/ \E t \in MemTexts, u \in Usernames : MemStoreConversation(t, u)
    \/ \E t \in MemTexts : MemAddKnowledge(t, "master")
    \/ \E t \in MemTexts : MemSearchMemory(t)
    \/ \E t \in MemTexts, u \in Usernames : MemGetRelevantContext(t, u)
    \/ \E f \in MemFiles : MemImport(f)

(***************************************************************************)
(* handle_ai_request (message_handler.py 404-409) and                      *)
(* handle_ai_request_stream (459-464): the message cleaned of the trigger  *)
(* phrase, with messages as sequences of characters.                       *)
(***************************************************************************)
MaxCleanLen == 5

CleanChars == {"@", "b", "B", "o", "t", " ", "x"}

AI_TRIGGER_PHRASE_chars == <<"@", "b", "o", "t">>

GreetingPlaceholder == <<"H", "e", "l", "l", "o", "!">>

CleanMessages == UNION {[1..n -> CleanChars] : n \in 0..MaxCleanLen}

\* str.lower()
LowerChars(s) == [i \in 1..Len(s) |-> IF s[i] = "B" THEN "b" ELSE s[i]]

\* s.startswith(old)
HasPrefix(s, old) == Len(s) >= Len(old) /\ SubSeq(s, 1, Len(old)) = old

\* str.replace(old, ""): the occurrences found from left to right, none
\* overlapping another
RECURSIVE Remove(_, _)
Remove(s, old) ==
    IF s = <<>> THEN <<>>
    ELSE IF HasPrefix(s, old) THEN Remove(SubSeq(s, Len(old) + 1, Len(s)), old)
    ELSE <<Head(s)>> \o Remove(Tail(s), old)

\* str.strip()
RECURSIVE LStrip(_)
LStrip(s) == IF s # <<>> /\ Head(s) = " " THEN LStrip(Tail(s)) ELSE s

RECURSIVE RStrip(_)
RStrip(s) ==
    IF s # <<>> /\ s[Len(s)] = " " THEN RStrip(SubSeq(s, 1, Len(s) - 1)) ELSE s

StripChars(s) == RStrip(LStrip(s))

\* clean_message without the placeholder
clean_message_bare(message) ==
    StripChars(Remove(LowerChars(message), LowerChars(AI_TRIGGER_PHRASE_chars)))

\* lines 407-409 and 462-464
clean_message(message) ==
    LET cleaned == StripChars(Remove(LowerChars(message),
                                     LowerChars(AI_TRIGGER_PHRASE_chars)))
    IN  IF cleaned = <<>> THEN GreetingPlaceholder ELSE cleaned

CleanInit == cm = [pc |-> "call", streaming |-> FALSE, message |-> <<>>,
                   to_memory |-> <<>>, to_llm |-> <<>>]

\* one of the two functions is called with the memory enabled: the content
\* stored and queried in the memory and the prompt given to the client
CleanAndHandOn(streaming, message) ==
    /\ cm.pc = "call"
    /\ cm' = [pc |-> "handed", streaming |-> streaming, message |-> message,
              to_memory |-> clean_message(message),
              to_llm |-> clean_message(message)]
    /\ UNCHANGED cleanFrame

NextClean ==
    /\ cm.pc = "call"
    /\ \E streaming \in BOOLEAN, message \in CleanMessages :
          CleanAndHandOn(streaming, message)

(***************************************************************************)
(* MemoryManager._split_text (utils/memory_manager.py 428-466): one call.  *)
(* A text is a sequence of characters; a chunk text[start:end] is kept as  *)
(* its pair of offsets.                                                    *)
(***************************************************************************)
MaxTextLen == 7

SplitChars == {"a", ".", " ", "\n"}

\* the boundaries tried, in order
Boundaries == << <<".", " ">>, <<"!", " ">>, <<"?", " ">>, <<"\n">> >>

\* chunk_size and overlap: the defaults of import_knowledge_from_file, and
\* small values with the overlap below half a chunk as well
DefaultSplit == [chunk_size |-> 500, overlap |-> 50]
SmallSplits == {[chunk_size |-> 6, overlap |-> 1], [chunk_size |-> 6, overlap |-> 2]}

SmallTexts == UNION {[1..n -> SplitChars] : n \in 0..MaxTextLen}

\* texts of 1200 characters: letters, with a newline at offset p and ". " at
\* offset q when these are not 0
LongTextLen == 1200
LongBreaks == {0, 260, 449, 700, 1000}
LongTexts ==
    {[i \in 1..LongTextLen |->
         IF p # 0 /\ i = p + 1 THEN "\n"
         ELSE IF q # 0 /\ i = q + 1 THEN "."
         ELSE IF q # 0 /\ i = q + 2 THEN " "
         ELSE "a"] : p \in LongBreaks, q \in LongBreaks}

\* text[start:end].rfind(boundary): offset within the slice, -1 when absent
RFind(text, start, end, boundary) ==
    LET found == {pos \in 0..(end - start - Len(boundary)) :
                     \A k \in 1..Len(boundary) : text[start + pos + k] = boundary[k]}
    IN  IF found = {} THEN -1 ELSE CHOOSE pos \in found : \A o \in found : o <= pos

\* lines 452-458: the end moved back to the first boundary, in the order
\* tried, that lies beyond the middle of a chunk
RECURSIVE AdjustEnd(_, _, _, _, _)
AdjustEnd(text, start, end, chunk_size, b) ==
    IF b > Len(Boundaries) THEN end
    ELSE LET pos == RFind(text, start, end, Boundaries[b])
         IN  IF pos > chunk_size \div 2 THEN start + pos + Len(Boundaries[b])
             ELSE AdjustEnd(text, start, end, chunk_size, b + 1)

\* line 464 without the overlap
NextStart_nooverlap(start, end, overlap) == end

\* line 464
NextStart(start, end, overlap) == IF end - overlap > start THEN end - overlap ELSE end

Min(a, b) == IF a <= b THEN a ELSE b

\* the while loop (lines 447-464) from offset start on
RECURSIVE SplitFrom(_, _, _, _)
SplitFrom(text, start, chunk_size, overlap) ==
    IF start >= Len(text) THEN <<>>
    ELSE LET end0 == Min(start + chunk_size, Len(text))
             end == IF end0 < Len(text) THEN AdjustEnd(text, start, end0, chunk_size, 1)
                    ELSE end0
         IN  <<[start |-> start, end |-> end]>>
             \o SplitFrom(text, NextStart(start, end, overlap), chunk_size, overlap)

split_text(text, chunk_size, overlap) ==
    IF Len(text) <= chunk_size THEN <<[start |-> 0, end |-> Len(text)]>>
    ELSE SplitFrom(text, 0, chunk_size, overlap)

SplitInit == sx = [pc |-> "call", text |-> <<>>, chunk_size |-> 0, overlap |-> 0,
                   chunks |-> <<>>]

SplitText(text, par) ==
    /\ sx.pc = "call"
    /\ sx' = [pc |-> "returned", text |-> text, chunk_size |-> par.chunk_size,
              overlap |-> par.overlap,
              chunks |-> split_text(text, par.chunk_size, par.overlap)]
    /\ UNCHANGED splitFrame

NextSplit ==
    /\ sx.pc = "call"
    /\ \/ \E text \in SmallTexts, par \in SmallSplits : SplitText(text, par)
       \/ \E text \in LongTexts : SplitText(text, DefaultSplit)

\* _split_text with any chunk_size >= 1 and any overlap >= 0, the overlap
\* reaching and passing the chunk size
MaxChunkSize == 4
MaxOverlap == 5
MaxWideLen == 5

WideSplits ==
    {[chunk_size |-> c, overlap |-> o] : c \in 1..MaxChunkSize, o \in 0..MaxOverlap}

WideTexts == UNION {[1..n -> SplitChars] : n \in 0..MaxWideLen}

NextSplitAny ==
    /\ sx.pc = "call"
    /\ \E text \in WideTexts, par \in WideSplits : SplitText(text, par)

(***************************************************************************)
(* DiscordBot.on_message (src/discord_bot.py 180-228): the fragments of    *)
(* handle_ai_request_stream sent to the channel and edited there.  A text  *)
(* is a sequence of characters; only its length matters to the handler.    *)
(* Whether bot_message.content follows an edit depends on the library      *)
(* version: both are modelled.                                             *)
(***************************************************************************)
MaxFragments == 4

FragmentLens == {1, 4, 6, 12}

TextOfLen(n) == [i \in 1..n |-> "x"]

FragmentsIn == {TextOfLen(n) : n \in FragmentLens}

\* len(collected_response) >= 10 (line 201)
FirstSendAt == 10
\* len(collected_response) >= len(bot_message.content) + 5 (line 212)
EditStep == 5

\* line 212
EditsNow(collected_response, bot_message) ==
    Len(collected_response) >= Len(bot_message) + EditStep

DiscordInit == dc = [pc |-> "streaming", collected_response |-> <<>>,
                     bot_message |-> None, channel |-> None, in_place |-> FALSE,
                     nfragments |-> 0, failed |-> FALSE]

\* one iteration of the async for (lines 186-217) on the next fragment;
\* ok: the send or edit attempted succeeds
DiscordFragment(chunk, ok, in_place) ==
    /\ dc.pc = "streaming"
    /\ dc.nfragments < MaxFragments
    /\ LET collected == dc.collected_response \o chunk
           d0 == [dc EXCEPT !.collected_response = collected, !.nfragments = @ + 1]
       IN  dc' = IF dc.bot_message = None /\ Len(collected) >= FirstSendAt
                 THEN IF ok
                      THEN [d0 EXCEPT !.bot_message = collected, !.channel = collected,
                                      !.in_place = in_place]
                      ELSE [d0 EXCEPT !.pc = "returned", !.failed = TRUE]
                 ELSE IF dc.bot_message # None /\ EditsNow(collected, dc.bot_message)
                 THEN IF ok
                      THEN [d0 EXCEPT !.channel = collected,
                                      !.bot_message = IF dc.in_place THEN collected ELSE @]
                      ELSE [d0 EXCEPT !.failed = TRUE]
                 ELSE d0
    /\ UNCHANGED discordFrame

\* the generator is exhausted (lines 219-228)
DiscordStreamEnds(ok) ==
    /\ dc.pc = "streaming"
    /\ dc' = IF dc.collected_response # <<>> /\ dc.bot_message = None
             THEN IF ok THEN [dc EXCEPT !.pc = "returned", !.channel = dc.collected_response]
                  ELSE [dc EXCEPT !.pc = "returned", !.failed = TRUE]
             ELSE [dc EXCEPT !.pc = "returned"]
    /\ UNCHANGED discordFrame

NextDiscord ==
    \/ \E chunk \in FragmentsIn, ok \in BOOLEAN, in_place \in BOOLEAN :
          DiscordFragment(chunk, ok, in_place)
    \/ \E ok \in BOOLEAN : DiscordStreamEnds(ok)

(***************************************************************************)
(* IntentDetector: guideline documents.                                    *)
(***************************************************************************)
intent_patterns == {"greeting", "question", "help_request", "gratitude",
                    "frustration", "error_report", "feature_request", "farewell"}

\* the "channels" part of the default template of a language
DefaultChannelGuidelines(language) ==
    {[channel |-> "welcome", intent |-> "introduction", priority |-> "high",
      response |-> language]}

\* load_guidelines(language): channel_guidelines = the document's "channels"
load_guidelines(st, language) == [st EXCEPT !.guidelines = st.files[language]]

\* add_or_update_channel_guideline followed by _save_guidelines
add_or_update_channel_guideline(st, channel, intent, priority, response) ==
    LET kept == {g \in st.guidelines : ~(g.channel = channel /\ g.intent = intent)}
        new == kept \cup {[channel |-> channel, intent |-> intent,
                           priority |-> priority, response |-> response]}
    IN  [st EXCEPT !.guidelines = new, !.files[st.language] = new]

(***************************************************************************)
(* Command handlers.  c is the call: [id, entry, platform, username,       *)
(* channel_id, message]; args is the argument text.                        *)
(***************************************************************************)
AssistantTurn(c, content) == Turn("Assistant", content, c.id)
UserTurn(c) == Turn("User", c.message, c.id)

\* the response stored twice
StoreAssistant_twice(st, c, content) ==
    LET once == store_message(st.h, c.username, c.channel_id, AssistantTurn(c, content))
    IN  [st EXCEPT !.h = store_message(once, c.username, c.channel_id,
                                       AssistantTurn(c, content))]

\* self.store_message(username, channel_id, 'Assistant', response)
StoreAssistant(st, c, content) ==
    [st EXCEPT !.h = store_message(st.h, c.username, c.channel_id, AssistantTurn(c, content))]

command_help(st, c, args) == Fin(st, <<"Comandos disponibles">>, "help", {}, 0)

command_ping(st, c, args) == Fin(st, <<"Pong! Bot is online. Platform:", c.platform>>, "ping", {}, 0)

command_list_personas(st, c, args) ==
    Fin(st, <<"Available AI personas", st.persona>>, "personas", {}, 0)

command_list_languages(st, c, args) ==
    Fin(st, <<"Available languages", st.language>>, "languages", {}, 0)

command_list_knowledge(st, c, args) ==
    Fin(st, <<"Archivos de conocimiento disponibles">> \o st.knowledge, "knowledges", {}, 0)

\* the await of generate_response is where the handler is suspended
command_ai(st, c, args) ==
    IF args = <<>> THEN Fin(st, <<"Please provide a message after !ai">>, "ai", {}, 0)
    ELSE LET st1 == generate_response_begin(st)
         IN  Susp(st1, "command_ai", "-", st1.persona, "ai", {})

\* pcmd is a history field: the persona of the last successful persona command
command_persona(st, c, args) ==
    IF args = <<>> THEN Fin(st, <<"Current persona:", st.persona>>, "persona", {}, 0)
    ELSE LET r == set_persona(st, ArgKey(args))
         IN  Fin(IF r.ok THEN [r.st EXCEPT !.pcmd = ArgKey(args)] ELSE r.st,
                 r.msg, "persona", {}, 0)

\* generate_persona_response (lines 356-363) runs up to the await inside
\* generate_response: the current persona is saved and overwritten.
command_ask_as_persona(st, c, args) ==
    IF args = <<>> THEN Fin(st, <<"Usage: !ask <persona> <message>">>, "ask", {}, 0)
    ELSE IF Len(args) < 2
    THEN Fin(st, <<"Please provide both a persona name and a message.">>, "ask", {}, 0)
    ELSE IF Lower(args[1]) \notin AI_PERSONAS
    THEN Fin(st, <<"Unknown persona. Available personas", args[1]>>, "ask", {}, 0)
    ELSE LET original_persona == st.persona
             st1 == generate_response_begin([st EXCEPT !.persona = Lower(args[1])])
         IN  Susp(st1, "ask", original_persona, st1.persona, "ask", {})

command_language(st, c, args) ==
    IF args = <<>> THEN Fin(st, <<"Current language:", st.language>>, "language", {}, 0)
    ELSE LET r == set_language(st, ArgKey(args))
         IN  Fin(IF r.ok THEN load_guidelines(r.st, ArgKey(args)) ELSE r.st,
                 r.msg, "language", {}, 0)

command_manage_knowledge(st, c, args) ==
    IF args = <<>> THEN Fin(st, <<"Usage: knowledge">>, "knowledge", {}, 0)
    ELSE LET action == Lower(args[1])
         IN  CASE action = "list" ->
                    Fin(st, <<"Archivos de conocimiento disponibles">> \o st.knowledge,
                        "knowledge", {}, 0)
               [] action = "status" ->
                    Fin(st, <<"Active knowledge files:">> \o st.knowledge, "knowledge", {}, 0)
               [] action = "activate" /\ Len(args) > 1 ->
                    LET r == activate_knowledge(st, RawKey(Tail(args)))
                    IN  Fin(r.st, r.msg, "knowledge", {}, 0)
               [] action = "deactivate" /\ Len(args) > 1 ->
                    LET r == deactivate_knowledge(st, RawKey(Tail(args)))
                    IN  Fin(r.st, r.msg, "knowledge", {}, 0)
               [] OTHER -> Fin(st, <<"Invalid knowledge command.">>, "knowledge", {}, 0)

\* the subcommands read the vector store or import files into it; none of
\* them writes persona, language, knowledge or guidelines
command_manage_memory(st, c, args) ==
    Fin(st, <<"memory">> \o args, "memory", {}, 0)

command_manage_intent(st, c, args) ==
    IF ~ENABLE_INTENT_DETECTION
    THEN Fin(st, <<"Intent detection is disabled in config.">>, "intent", {}, 0)
    ELSE IF args = <<>> THEN Fin(st, <<"Usage: intent">>, "intent", {}, 0)
    ELSE LET action == Lower(args[1])
         IN  CASE action \in {"list", "channels"} ->
                    Fin(st, <<"intent", action>>, "intent", {}, 0)
               [] action \in {"analyze", "test"} /\ Len(args) > 1 ->
                    Fin(st, <<"Intent analysis for">> \o Tail(args), "intent", {}, 0)
               [] action = "add" /\ Len(args) > 1 ->
                    IF Len(args) < 5
                    THEN Fin(st, <<"Usage: intent add <channel> <intent> <priority> <response>">>,
                             "intent", {}, 0)
                    ELSE IF args[3] \notin intent_patterns
                    THEN Fin(st, <<"Invalid intent", args[3]>>, "intent", {}, 0)
                    ELSE IF args[4] \notin {"high", "medium", "low"}
                    THEN Fin(st, <<"Invalid priority.">>, "intent", {}, 0)
                    ELSE Fin(add_or_update_channel_guideline(st, args[2], args[3], args[4],
                                                             SubSeq(args, 5, Len(args))),
                             <<"Successfully added guideline for", args[3], args[2]>>,
                             "intent", {}, 0)
               [] OTHER -> Fin(st, <<"Invalid intent command.">>, "intent", {}, 0)

\* self.commands[command](args, username, channel_id, platform)
RunCommand(command, st, c, args) ==
    CASE command = "help" -> command_help(st, c, args)
      [] command = "ping" -> command_ping(st, c, args)
      [] command = "ai" -> command_ai(st, c, args)
      [] command = "persona" -> command_persona(st, c, args)
      [] command = "personas" -> command_list_personas(st, c, args)
      [] command = "ask" -> command_ask_as_persona(st, c, args)
      [] command = "language" -> command_language(st, c, args)
      [] command = "languages" -> command_list_languages(st, c, args)
      [] command = "knowledge" -> command_manage_knowledge(st, c, args)
      [] command = "knowledges" -> command_list_knowledge(st, c, args)
      [] command = "memory" -> command_manage_memory(st, c, args)
      [] command = "intent" -> command_manage_intent(st, c, args)

handle_command(st, c, command_text) ==
    LET command == CommandName(command_text)
        args == CommandArgs(command_text)
    IN  IF command \in admin_commands /\ ~is_authorized(c.platform, c.username)
        THEN Fin(st, DenialMsg(command), "", {}, 0)
        ELSE IF command \in CommandNames
        THEN IF command \in {"knowledge", "knowledges"}
                /\ ~is_authorized(c.platform, c.username)
             THEN Fin(st, KnowledgeDenialMsg, "", {}, 0)
             ELSE RunCommand(command, st, c, args)
        ELSE Fin(st, UnknownCommandMsg(command), "", {}, 0)

(***************************************************************************)
(* MessageHandler.process_message and handle_ai_request.                   *)
(***************************************************************************)
discord_bot_id == "BOTID"      \* DISCORD_TOKEN.split('.')[0]

\* trigger_phrase in message_lower, on lexemes
ContainsPhrase(w) == Lower(w) \in {"@bot"}
\* trigger_phrase.replace('@', '') in message_lower
ContainsBarePhrase(w) == Lower(w) \in {"@bot", "bot"}
\* '<@' in message and '>' in message, and the mention of this bot
IsMention(w) == w \in {"<@BOTID>", "<@OTHER>"}
IsOwnMention(w) == w = "<@BOTID>"

is_triggered(message) ==
    \/ \E i \in 1..Len(message) : ContainsPhrase(message[i]) \/ ContainsBarePhrase(message[i])
    \/ /\ \E i \in 1..Len(message) : IsMention(message[i])
       /\ \E i \in 1..Len(message) : IsOwnMention(message[i])

\* lines 407-409 on lexemes: lower case, the trigger phrase taken out, and
\* the placeholder for what would be empty
clean_lexemes(message) ==
    LET lowered == [i \in 1..Len(message) |-> Lower(message[i])]
        cleaned == SelectSeq(lowered, LAMBDA w : w # AI_TRIGGER_PHRASE)
    IN  IF cleaned = <<>> THEN <<"Hello!">> ELSE cleaned

\* generate_response lines 120-129: payload["messages"], absent (empty here)
\* when no history is passed
formatted_history(conversation_history_arg, message) ==
    IF Len(conversation_history_arg) > 0
    THEN [i \in 1..Len(conversation_history_arg) |->
             [role |-> IF conversation_history_arg[i].role = "User" THEN "user"
                       ELSE "assistant",
              content |-> conversation_history_arg[i].content]]
         \o <<[role |-> "user", content |-> message]>>
    ELSE <<>>

\* handle_ai_request up to the await of generate_response (lines 406-442);
\* sent is the messages list of the request
handle_ai_request(st, c, path) ==
    LET st1 == generate_response_begin(st)
        history == get_conversation_history(st1.h, c.username, c.channel_id)
    IN  [Susp(st1, "handle_ai_request", "-", st1.persona, "",
              path \cup {"handle_ai_request"})
         EXCEPT !.sent = formatted_history(history, clean_lexemes(c.message))]

\* IntentDetector.analyze_message(message, channel_name): the results it can give
IntentAnalyses ==
    {[should_respond |-> FALSE, response |-> None],
     [should_respond |-> TRUE, response |-> <<"intent-response">>]}

\* process_message from its entry to its return or its first await.
\* analysis: what the intent detector answers if asked; draw: whether
\* random.random() < AI_RESPONSE_PROBABILITY.
process_message(st, c, analysis, draw) ==
    LET st1 == [st EXCEPT !.h = store_message(st.h, c.username, c.channel_id, UserTurn(c))]
        intent_on == c.platform = "discord" /\ ENABLE_INTENT_DETECTION
        seen == IF intent_on THEN {"intent"} ELSE {}
    IN  IF StartsWithPrefix(c.message) THEN handle_command(st1, c, Tail(c.message))
        ELSE IF intent_on /\ analysis.should_respond /\ Truthy(analysis.response)
        THEN Fin(StoreAssistant(st1, c, analysis.response), analysis.response, "", seen, 1)
        ELSE IF c.platform = "discord" THEN handle_ai_request(st1, c, seen)
        ELSE IF ENABLE_AI_RESPONSE /\ is_triggered(c.message)
        THEN handle_ai_request(st1, c, {"trigger"})
        ELSE IF ENABLE_AI_RESPONSE /\ draw
        THEN Susp(st1, "classifier", "-", "-", "", {"trigger", "classifier"})
        ELSE Fin(st1, None, "", IF ENABLE_AI_RESPONSE THEN {"trigger"} ELSE {}, 0)

Raised == <<"<raised>">>

\* The handler of task t continues after its await of generate_response,
\* which returned r.val or (r.raised) raised an exception.
resume_generate_response(st, t, r) ==
    IF r.raised THEN Fin(st, Raised, t.ran, t.path, 0)
    ELSE CASE t.cont = "command_ai" ->
                Fin(StoreAssistant(st, t.c, Txt(r.val)), Txt(r.val), t.ran, t.path, 1)
           [] t.cont = "handle_ai_request" ->
                Fin(StoreAssistant(st, t.c, Txt(r.val)), Txt(r.val), t.ran, t.path, 1)
           [] t.cont = "ask" ->
                LET st1 == [st EXCEPT !.persona = t.orig]     \* restore original persona
                    reply == <<"[PERSONA]", t.persona_used>> \o Txt(r.val)
                IN  Fin(StoreAssistant(st1, t.c, reply), reply, t.ran, t.path, 1)

\* OllamaClient.analyze_message: the results the classifier can give
ClassifierResults ==
    {[should_respond |-> FALSE, response |-> None],
     [should_respond |-> TRUE, response |-> <<"suggestion">>],
     [should_respond |-> TRUE, response |-> <<>>]}

\* process_message continues after its await of analyze_message (lines 187-191)
resume_classifier(st, t, a) ==
    IF a.should_respond /\ Truthy(a.response)
    THEN Fin(StoreAssistant(st, t.c, a.response), a.response, t.ran, t.path, 1)
    ELSE Fin(st, None, t.ran, t.path, 0)

(***************************************************************************)
(* The platform adapters' registered commands.                             *)
(***************************************************************************)
RegisteredCommands == {"help", "ping", "ai", "persona", "personas", "ask",
                       "language", "languages"}

\* the callback registered under `name`, called with the rest of the message
registered_callback(name, st, c, args, ask_error) ==
    CASE name = "help" -> command_help(st, c, <<>>)
      [] name = "ping" -> command_ping(st, c, <<>>)
      [] name = "ai" -> command_ai(st, c, args)
      [] name = "persona" -> command_persona(st, c, args)
      [] name = "personas" -> command_list_personas(st, c, <<>>)
      [] name = "ask" -> IF Len(args) < 2 THEN Fin(st, ask_error, "", {}, 0)
                         ELSE command_ask_as_persona(st, c, args)
      [] name = "language" -> command_language(st, c, args)
      [] name = "languages" -> command_list_languages(st, c, <<>>)

\* DiscordBot.on_message for a message that begins with the prefix:
\* a registered command is invoked, anything else is dropped
discord_invoke(st, c) ==
    LET command_text == Tail(c.message)
        name == IF command_text = <<>> THEN "" ELSE Head(command_text)
    IN  IF name \in RegisteredCommands
        THEN registered_callback(name, st, c, CommandArgs(command_text),
                                 <<"Error al ejecutar el comando">>)
        ELSE Fin(st, None, "", {}, 0)

\* DiscordBot.on_message for a message without the prefix (lines 168-191):
\* handle_ai_request_stream up to the first fragment awaited.  No User turn
\* is stored on this path.
handle_ai_request_stream(st, c) ==
    LET st1 == generate_response_begin(st)
    IN  Susp(st1, "stream", "-", st1.persona, "", {"handle_ai_request_stream"})

\* handle_ai_request_stream after its generator is exhausted (lines 515-527):
\* r.val is the concatenation of the fragments, "" when the generator ended
\* without yielding any
resume_stream(st, t, r) ==
    IF r.raised THEN Fin(st, Raised, t.ran, t.path, 0)
    ELSE IF Txt(r.val) # <<>>
    THEN Fin(StoreAssistant(st, t.c, Txt(r.val)), Txt(r.val), t.ran, t.path, 1)
    ELSE Fin(st, <<>>, t.ran, t.path, 0)

\* TwitchBot.event_message
twitch_event_message(st, c, draw) ==
    IF StartsWithPrefix(c.message)
    THEN LET command_text == Tail(c.message)
             name == IF command_text = <<>> THEN "" ELSE Head(command_text)
         IN  IF name \in RegisteredCommands
             THEN registered_callback(name, st, c, CommandArgs(command_text),
                                      <<"Usage: !ask <persona> <message>">>)
             ELSE Fin(st, None, "", {}, 0)
    ELSE process_message(st, c, CHOOSE a \in IntentAnalyses : ~a.should_respond, draw)

(***************************************************************************)
(* process_message (message_handler.py 89-191), one call, with the message *)
(* as a sequence of characters: which of handle_command, the intent        *)
(* detector, handle_ai_request and the classifier it calls, and what it    *)
(* returns once the call it awaits has returned.                           *)
(***************************************************************************)
MaxTokens == 3

BOT_PREFIX_chars == <<"!">>

\* the pieces a message is put together from
RouteTokens ==
    {<<"@", "b", "o", "t">>, <<"@", "B", "o", "t">>, <<"b", "o", "t">>,
     <<"@", "b", " ", "o", "t">>, <<" ">>, <<"x">>,
     <<"<", "@", "1", ">">>, <<"<", "@", "2", ">">>, <<"<", "@">>, <<">">>, <<"!">>}

RECURSIVE RouteMessagesOf(_)
RouteMessagesOf(n) ==
    IF n = 0 THEN {<<>>}
    ELSE {m \o t : m \in RouteMessagesOf(n - 1), t \in RouteTokens}

RouteMessages == UNION {RouteMessagesOf(n) : n \in 0..MaxTokens}

\* self.discord_bot_id: None (the empty text here) when DISCORD_TOKEN is
\* empty, the first part of the token otherwise
BotIds == {<<>>, <<"1">>}

\* sub in s
Contains(s, sub) ==
    \E i \in 0..(Len(s) - Len(sub)) : SubSeq(s, i + 1, i + Len(sub)) = sub

\* lines 155-157 without message.lower()
phrase_in_message_exact(message) ==
    LET trigger_phrase == LowerChars(AI_TRIGGER_PHRASE_chars)
    IN  \/ Contains(message, trigger_phrase)
        \/ Contains(message, Remove(trigger_phrase, <<"@">>))
        \/ Contains(Remove(message, <<" ">>), Remove(trigger_phrase, <<" ">>))

\* lines 145-157: the three variations of the trigger phrase
phrase_in_message(message) ==
    LET trigger_phrase == LowerChars(AI_TRIGGER_PHRASE_chars)
        message_lower == LowerChars(message)
    IN  \/ Contains(message_lower, trigger_phrase)
        \/ Contains(message_lower, Remove(trigger_phrase, <<"@">>))
        \/ Contains(Remove(message_lower, <<" ">>), Remove(trigger_phrase, <<" ">>))

\* lines 162-170: a mention of this bot, or any mention when the id is unknown
mention_in_message(message, bot_id) ==
    /\ Contains(message, <<"<", "@">>) /\ Contains(message, <<">">>)
    /\ IF bot_id # <<>> /\ Contains(message, <<"<", "@">> \o bot_id \o <<">">>)
       THEN TRUE
       ELSE bot_id = <<>>

\* is_triggered at line 172
is_triggered_chars(message, bot_id) ==
    phrase_in_message(message) \/ mention_in_message(message, bot_id)

RouteAwaits(calls) == [calls |-> calls, done |-> FALSE, result |-> None]
RouteReturns(calls, result) == [calls |-> calls, done |-> TRUE, result |-> result]

\* process_message up to its return or the call it awaits; calls lists what
\* it has called, in order
process_message_chars(message, platform, bot_id, draw, analysis) ==
    LET intent_on == platform = "discord" /\ ENABLE_INTENT_DETECTION
        asked == IF intent_on THEN <<"intent_detector">> ELSE <<>>
    IN  IF HasPrefix(message, BOT_PREFIX_chars) THEN RouteAwaits(<<"handle_command">>)
        ELSE IF intent_on /\ analysis.should_respond /\ Truthy(analysis.response)
        THEN RouteReturns(asked, analysis.response)
        ELSE IF platform = "discord" THEN RouteAwaits(asked \o <<"handle_ai_request">>)
        ELSE IF ENABLE_AI_RESPONSE /\ is_triggered_chars(message, bot_id)
        THEN RouteAwaits(<<"handle_ai_request">>)
        ELSE IF ENABLE_AI_RESPONSE /\ draw THEN RouteAwaits(<<"analyze_message">>)
        ELSE RouteReturns(<<>>, None)

\* lines 187-191 taking the suggestion whatever the verdict
after_classifier_any(a) == a.response

\* lines 187-191
after_classifier(a) ==
    IF a.should_respond /\ Truthy(a.response) THEN a.response ELSE None

RouteInit ==
    rt = [pc |-> "call", message |-> <<>>, platform |-> "-", bot_id |-> <<>>,
          draw |-> FALSE, calls |-> <<>>, inner |-> None,
          verdict |-> [should_respond |-> FALSE, response |-> None], result |-> None]

\* process_message is called; the handler was constructed with bot_id
RouteCall(message, platform, bot_id, draw, analysis) ==
    /\ rt.pc = "call"
    /\ LET out == process_message_chars(message, platform, bot_id, draw, analysis)
       IN  rt' = [pc |-> IF out.done THEN "returned" ELSE "awaiting",
                  message |-> message, platform |-> platform, bot_id |-> bot_id,
                  draw |-> draw, calls |-> out.calls, inner |-> None,
                  verdict |-> [should_respond |-> FALSE, response |-> None],
                  result |-> out.result]
    /\ UNCHANGED routeFrame

\* handle_command or handle_ai_request returns val to process_message
RouteHandlerReturns(val) ==
    /\ rt.pc = "awaiting"
    /\ rt.calls[Len(rt.calls)] \in {"handle_command", "handle_ai_request"}
    /\ rt' = [rt EXCEPT !.pc = "returned", !.inner = val, !.result = val]
    /\ UNCHANGED routeFrame

\* analyze_message returns a to process_message
RouteClassifierReturns(a) ==
    /\ rt.pc = "awaiting"
    /\ rt.calls[Len(rt.calls)] = "analyze_message"
    /\ rt' = [rt EXCEPT !.pc = "returned", !.verdict = a,
                        !.result = after_classifier(a)]
    /\ UNCHANGED routeFrame

\* the awaited call raises: process_message has no handler for it
RouteAwaitedRaises ==
    /\ rt.pc = "awaiting"
    /\ rt' = [rt EXCEPT !.pc = "raised"]
    /\ UNCHANGED routeFrame

NextRoute ==
    \/ /\ rt.pc = "call"
       /\ \E message \in RouteMessages, platform \in Platforms, bot_id \in BotIds,
             draw \in BOOLEAN, analysis \in IntentAnalyses :
             RouteCall(message, platform, bot_id, draw, analysis)
    \/ \E val \in {<<"answer">>, <<>>} : RouteHandlerReturns(val)
    \/ \E a \in ClassifierResults : RouteClassifierReturns(a)
    \/ RouteAwaitedRaises

(***************************************************************************)
(* IntentDetector.load_guidelines (utils/nlp/intent_detection.py 123-182)  *)
(* against the documents that can lie in the knowledge directory, and      *)
(* command_language (message_handler.py 384-402) driving it.  The content  *)
(* of a section is named after the language of the document it was read    *)
(* from; "none" is the empty dict the detector is constructed with.        *)
(***************************************************************************)
\* a document: absent, unreadable as JSON, or an object with or without its
\* "channels" and "default" members
GuideDocs ==
    {[kind |-> "missing", channels |-> FALSE, default |-> FALSE],
     [kind |-> "corrupt", channels |-> FALSE, default |-> FALSE]}
    \cup {[kind |-> "doc", channels |-> c, default |-> d] : c \in BOOLEAN, d \in BOOLEAN}

GuideDirs == [SUPPORTED_LANGUAGES -> GuideDocs]

\* self.language_files
language_files == {"english", "spanish"}

\* what a caller may pass as the language
LanguageArgs == SUPPORTED_LANGUAGES \cup {"klingon"}

\* _create_default_guidelines (lines 184-313): the template written and taken
\* as the current guidelines, or nothing at all when the write fails
create_default_guidelines(g, language, writable) ==
    IF writable
    THEN [g EXCEPT !.files[language] = [kind |-> "doc", channels |-> TRUE, default |-> TRUE],
                   !.channel_guidelines = language,
                   !.default_guidelines = language]
    ELSE g

\* load_guidelines(language), lines 134-182
load_guidelines_from(g, language, writable) ==
    LET l0 == IF language \in SUPPORTED_LANGUAGES THEN language ELSE "english"
        use_language == IF l0 \in language_files THEN l0 ELSE "english"
        doc == g.files[use_language]
        g1 == [g EXCEPT !.current_language = use_language]
    IN  IF doc.kind = "missing"
        THEN [create_default_guidelines(g1, use_language, writable) EXCEPT !.loaded = TRUE]
        ELSE IF doc.kind = "corrupt" THEN [g1 EXCEPT !.loaded = FALSE]
        ELSE [g1 EXCEPT !.channel_guidelines = IF doc.channels THEN use_language ELSE @,
                        !.default_guidelines = IF doc.default THEN use_language ELSE @,
                        !.loaded = TRUE]

\* reload_guidelines_for_language, lines 315-330
reload_guidelines_for_language(g, language, writable) ==
    IF language \notin language_files THEN g
    ELSE load_guidelines_from(g, language, writable)

NoLanguageCommand == [arg |-> "-", ok |-> FALSE, doc |-> CHOOSE d \in GuideDocs : d.kind = "missing"]

GuideInit ==
    gd = [pc |-> "start",
          files |-> [l \in SUPPORTED_LANGUAGES |-> CHOOSE d \in GuideDocs : d.kind = "missing"],
          channel_guidelines |-> "none", default_guidelines |-> "none",
          current_language |-> "-", loaded |-> FALSE, client_language |-> "-",
          command |-> NoLanguageCommand]

\* MessageHandler.__init__: OllamaClient() takes the configured language and
\* IntentDetector() loads the guidelines of LANGUAGE from the directory as
\* it is found
GuideConstruct(dir, writable) ==
    /\ gd.pc = "start"
    /\ LET client_language == IF LANGUAGE \in SUPPORTED_LANGUAGES THEN LANGUAGE
                              ELSE "english"
           g0 == [gd EXCEPT !.pc = "ready", !.files = dir,
                            !.client_language = client_language]
       IN  gd' = load_guidelines_from(g0, LANGUAGE, writable)
    /\ UNCHANGED guideFrame

\* command_language(args) with a language named: set_language on the client,
\* then the detector's guidelines reloaded when that succeeded.  command
\* records the argument, the outcome, and the document as it was found.
GuideLanguage(language, writable) ==
    /\ gd.pc = "ready"
    /\ LET success == language \in SUPPORTED_LANGUAGES
           g1 == [gd EXCEPT !.client_language = IF success THEN language ELSE @]
           g2 == IF success THEN reload_guidelines_for_language(g1, language, writable)
                 ELSE g1
       IN  gd' = [g2 EXCEPT !.command =
                     [arg |-> language, ok |-> success,
                      doc |-> IF success THEN gd.files[language]
                              ELSE NoLanguageCommand.doc]]
    /\ UNCHANGED guideFrame

NextGuide ==
    \/ /\ gd.pc = "start"
       /\ \E dir \in GuideDirs, writable \in BOOLEAN : GuideConstruct(dir, writable)
    \/ \E language \in LanguageArgs, writable \in BOOLEAN : GuideLanguage(language, writable)

(***************************************************************************)
(* The handler state machine.                                              *)
(***************************************************************************)
Texts ==
    {<<"hi">>,
     <<"@bot", "hi">>,
     <<"!", "ping">>,
     <<"!", "bogus">>,
     <<"!", "ai", "@bot", "hi">>,
     <<"!", "ask", "comedian", "hi">>,
     <<"!", "persona", "expert">>,
     <<"!", "PERSONA", "streamer">>,
     <<"!", "language", "english">>,
     <<"!", "languages">>,
     <<"!", "knowledge", "deactivate", "k1">>,
     <<"!", "knowledges">>,
     <<"!", "memory", "status">>,
     <<"!", "intent", "add", "welcome", "greeting", "high", "hola">>}

\* what generate_response hands back to a suspended handler
LLMValues == {"answer", "", APOLOGY_TIMEOUT}

NoCall ==
    [c |-> [id |-> 0, entry |-> "-", platform |-> "-", username |-> "-",
            channel_id |-> "-", message |-> <<>>],
     result |-> None, ran |-> "", path |-> {}, asst |-> 0,
     pre |-> [persona |-> "-", language |-> "-", knowledge |-> <<>>, guidelines |-> {}],
     post |-> [persona |-> "-", language |-> "-", knowledge |-> <<>>, guidelines |-> {}]]

InitialState ==
    LET constructed ==
            [h |-> EmptyHistory,
             persona |-> "default",
             language |-> IF LANGUAGE \in SUPPORTED_LANGUAGES THEN LANGUAGE ELSE "english",
             knowledge |-> <<>>,
             guidelines |-> {},
             files |-> [l \in SUPPORTED_LANGUAGES |-> DefaultChannelGuidelines(l)],
             pcmd |-> "default"]
    IN  \* _activate_all_knowledge_files(), IntentDetector.load_guidelines()
        load_guidelines(ActivateAll(constructed, KnowledgeScan), constructed.language)

HandlerInit ==
    /\ conversation_history = InitialState.h
    /\ current_persona = InitialState.persona
    /\ current_language = InitialState.language
    /\ active_knowledge = InitialState.knowledge
    /\ channel_guidelines = InitialState.guidelines
    /\ guideline_files = InitialState.files
    /\ persona_cmd = InitialState.pcmd
    /\ tasks = {}
    /\ nmsgs = 0
    /\ last = NoCall

Init ==
    /\ HandlerInit
    /\ stored = EmptyHistory
    /\ GRInit
    /\ StreamInit
    /\ ProbeInit
    /\ system_prompt = NoPrompt /\ client_ret = NoClientCall
    /\ LoopInit
    /\ SearchInit
    /\ MemInit
    /\ CleanInit
    /\ SplitInit
    /\ DiscordInit
    /\ RouteInit
    /\ GuideInit

\* The state after a handler segment: the shared state it leaves, the task
\* suspended or removed, and the finished call recorded.
Settle(out, c, pre) ==
    /\ conversation_history' = out.st.h
    /\ current_persona' = out.st.persona
    /\ current_language' = out.st.language
    /\ active_knowledge' = out.st.knowledge
    /\ channel_guidelines' = out.st.guidelines
    /\ guideline_files' = out.st.files
    /\ persona_cmd' = out.st.pcmd
    /\ tasks' = {t \in tasks : t.c.id # c.id}
                \cup (IF out.done THEN {}
                      ELSE {[c |-> c, cont |-> out.cont, orig |-> out.orig,
                             persona_used |-> out.persona_used, ran |-> out.ran,
                             path |-> out.path, pre |-> pre,
                             pcmd |-> out.st.pcmd, sent |-> out.sent]})
    /\ last' = IF out.done
               THEN [c |-> c, result |-> out.result, ran |-> out.ran, path |-> out.path,
                     asst |-> out.asst, pre |-> pre, post |-> Snapshot(out.st)]
               ELSE last

Call(entry, platform, username, channel_id, message) ==
    [id |-> nmsgs + 1, entry |-> entry, platform |-> platform, username |-> username,
     channel_id |-> channel_id, message |-> message]

\* a front end (or a test) calls MessageHandler.process_message
ProcessMessage(message, username, channel_id, platform, analysis, draw) ==
    /\ nmsgs < MaxMsgs
    /\ nmsgs' = nmsgs + 1
    /\ LET c == Call("process_message", platform, username, channel_id, message)
       IN  Settle(process_message(CurrentState, c, analysis, draw), c, Snapshot(CurrentState))
    /\ UNCHANGED <<stored, grVars, clientVars>>

\* the Discord adapter receives a message that begins with the prefix
DiscordInvoke(message, username, channel_id) ==
    /\ nmsgs < MaxMsgs
    /\ StartsWithPrefix(message)
    /\ nmsgs' = nmsgs + 1
    /\ LET c == Call("discord_adapter", "discord", username, channel_id, message)
       IN  Settle(discord_invoke(CurrentState, c), c, Snapshot(CurrentState))
    /\ UNCHANGED <<stored, grVars, clientVars>>

\* the Discord adapter receives a message without the prefix
DiscordStream(message, username, channel_id) ==
    /\ nmsgs < MaxMsgs
    /\ ~StartsWithPrefix(message)
    /\ nmsgs' = nmsgs + 1
    /\ LET c == Call("discord_adapter", "discord", username, channel_id, message)
       IN  Settle(handle_ai_request_stream(CurrentState, c), c, Snapshot(CurrentState))
    /\ UNCHANGED <<stored, grVars, clientVars>>

\* the generator of a streamed answer is exhausted, or raises
StreamFinishes(t, r) ==
    /\ t \in tasks
    /\ t.cont = "stream"
    /\ Settle(resume_stream(CurrentState, t, r), t.c, t.pre)
    /\ UNCHANGED <<nmsgs, stored, grVars, clientVars>>

\* the Twitch adapter receives a message
TwitchEventMessage(message, username, channel_id, draw) ==
    /\ nmsgs < MaxMsgs
    /\ nmsgs' = nmsgs + 1
    /\ LET c == Call("twitch_adapter", "twitch", username, channel_id, message)
       IN  Settle(twitch_event_message(CurrentState, c, draw), c, Snapshot(CurrentState))
    /\ UNCHANGED <<stored, grVars, clientVars>>

\* generate_response returns to a suspended handler
GenerateResponseReturns(t, val) ==
    /\ t \in tasks
    /\ t.cont \in {"command_ai", "ask", "handle_ai_request"}
    /\ Settle(resume_generate_response(CurrentState, t, [raised |-> FALSE, val |-> val]),
              t.c, t.pre)
    /\ UNCHANGED <<nmsgs, stored, grVars, clientVars>>

\* generate_response raises into a suspended handler
GenerateResponseRaises(t) ==
    /\ t \in tasks
    /\ t.cont \in {"command_ai", "ask", "handle_ai_request"}
    /\ Settle(resume_generate_response(CurrentState, t, [raised |-> TRUE, val |-> ""]),
              t.c, t.pre)
    /\ UNCHANGED <<nmsgs, stored, grVars, clientVars>>

\* analyze_message returns to process_message
ClassifierReturns(t, a) ==
    /\ t \in tasks
    /\ t.cont = "classifier"
    /\ Settle(resume_classifier(CurrentState, t, a), t.c, t.pre)
    /\ UNCHANGED <<nmsgs, stored, grVars, clientVars>>

\* the inputs that can matter to process_message for a message on a platform
AnalysesFor(m, p) ==
    IF p = "discord" /\ ~StartsWithPrefix(m) THEN IntentAnalyses
    ELSE {[should_respond |-> FALSE, response |-> None]}
DrawsFor(m, p) ==
    IF p # "discord" /\ ~StartsWithPrefix(m) /\ ~is_triggered(m) THEN BOOLEAN ELSE {FALSE}

Next ==
    \/ \E m \in Texts, u \in Usernames, ch \in ChannelIds, p \in Platforms :
          \E a \in AnalysesFor(m, p), d \in DrawsFor(m, p) : ProcessMessage(m, u, ch, p, a, d)
    \/ \E m \in Texts, u \in Usernames, ch \in ChannelIds : DiscordInvoke(m, u, ch)
    \/ \E m \in Texts, u \in Usernames, ch \in ChannelIds :
          \E d \in DrawsFor(m, "twitch") : TwitchEventMessage(m, u, ch, d)
    \/ \E t \in tasks, v \in LLMValues : GenerateResponseReturns(t, v)
    \/ \E t \in tasks : GenerateResponseRaises(t)
    \/ \E t \in tasks, a \in ClassifierResults : ClassifierReturns(t, a)
    \/ \E m \in Texts, u \in Usernames, ch \in ChannelIds : DiscordStream(m, u, ch)
    \/ \E t \in tasks, v \in LLMValues, raised \in BOOLEAN :
          StreamFinishes(t, [raised |-> raised, val |-> v])

Spec == Init /\ [][Next]_vars

(***************************************************************************)
(* process_message alone, as a front end or a test drives it.              *)
(***************************************************************************)
CoreTexts ==
    {<<"hi">>,
     <<"@bot", "hi">>,
     <<"!", "ai", "@bot", "hi">>,
     <<"!", "PERSONA", "streamer">>,
     <<"!", "language", "english">>,
     <<"!", "languages">>,
     <<"!", "knowledge", "deactivate", "k1">>,
     <<"!", "knowledges">>,
     <<"!", "memory", "status">>,
     <<"!", "intent", "add", "welcome", "greeting", "high", "hola">>}

NextCore ==
    \/ \E m \in CoreTexts, u \in Usernames, ch \in ChannelIds, p \in Platforms :
          \E a \in AnalysesFor(m, p), d \in DrawsFor(m, p) : ProcessMessage(m, u, ch, p, a, d)
    \/ \E t \in tasks, v \in LLMValues : GenerateResponseReturns(t, v)
    \/ \E t \in tasks : GenerateResponseRaises(t)
    \/ \E t \in tasks, a \in ClassifierResults : ClassifierReturns(t, a)

SpecCore == Init /\ [][NextCore]_vars

(***************************************************************************)
(* process_message on discord for messages that are no commands: the       *)
(* intent detector answers or handle_ai_request is awaited.                *)
(***************************************************************************)
PlainTexts == {m \in Texts : ~StartsWithPrefix(m)}

NextIntent ==
    \/ \E m \in PlainTexts, u \in Usernames, ch \in ChannelIds, a \in IntentAnalyses :
          ProcessMessage(m, u, ch, "discord", a, FALSE)
    \/ \E t \in tasks, v \in LLMValues : GenerateResponseReturns(t, v)
    \/ \E t \in tasks : GenerateResponseRaises(t)

SpecIntent == Init /\ [][NextIntent]_vars

(***************************************************************************)
(* store_message alone: any sequence of calls, on any keys.  The n-th turn *)
(* stored under a key is numbered n, a user turn when n is odd and an      *)
(* assistant turn when n is even.                                          *)
(***************************************************************************)
StoreMessage(username, channel_id) ==
    LET conv_key == get_conversation_key(username, channel_id)
        n == Len(stored[conv_key]) + 1
        turn == Turn(IF n % 2 = 1 THEN "User" ELSE "Assistant", <<"text">>, n)
    IN  /\ n <= MaxStores
        /\ conversation_history' = store_message(conversation_history, username, channel_id, turn)
        /\ stored' = [stored EXCEPT ![conv_key] = Append(@, turn)]
        /\ UNCHANGED <<handlerVars, grVars, clientVars>>

NextHist == \E u \in Usernames, ch \in ChannelIds : StoreMessage(u, ch)

SpecHist == Init /\ [][NextHist]_vars

(***************************************************************************)
(* generate_response alone: one call against every sequence of backend     *)
(* outcomes.                                                               *)
(***************************************************************************)
NextGR ==
    \/ \E o \in Outcomes : GRAttempt(o)
    \/ GRSleep

SpecGR == Init /\ [][NextGR]_vars

SpecStream == Init /\ [][NextStream]_vars

SpecProbe == Init /\ [][NextProbe]_vars

SpecPrompt == Init /\ [][NextPrompt]_vars

SpecLoop == Init /\ [][NextLoop]_vars

SpecSearch == Init /\ [][NextSearch]_vars

SpecMem == Init /\ [][NextMem]_vars

SpecClean == Init /\ [][NextClean]_vars

SpecSplit == Init /\ [][NextSplit]_vars

SpecSplitAny == Init /\ [][NextSplitAny]_vars

SpecDiscord == Init /\ [][NextDiscord]_vars

SpecRoute == Init /\ [][NextRoute]_vars

SpecGuide == Init /\ [][NextGuide]_vars

(***************************************************************************)
(* Properties.                                                             *)
(***************************************************************************)
\* the configured master user of a platform; the console has none
MasterOf(platform) ==
    CASE platform = "discord" -> {DISCORD_MASTER_USER}
      [] platform = "twitch" -> {TWITCH_MASTER_USER}
      [] OTHER -> {}

SentByMaster(c) == c.username \in MasterOf(c.platform)

\* the command word of a prefixed message, in lower case
CommandWord(message) ==
    IF Len(message) < 2 THEN ""
    ELSE CASE message[2] = "PERSONA" -> "persona"
           [] OTHER -> message[2]

IsPrefixed(message) == Len(message) >= 1 /\ message[1] = "!"

FinishedCall == last.c.id # 0

\* C1: an admin command (persona, language, languages, knowledge, knowledges,
\* memory, intent) passed through handle_command by a user who is not the
\* master of the platform returns the denial message, runs no command handler
\* and leaves persona, language, active knowledge and channel guidelines as
\* they were before the call.
C1_UnauthorizedAdminCommandDenied ==
    (/\ FinishedCall
     /\ last.c.entry = "process_message"
     /\ IsPrefixed(last.c.message)
     /\ CommandWord(last.c.message) \in
            {"persona", "language", "languages", "knowledge", "knowledges",
             "memory", "intent"}
     /\ ~SentByMaster(last.c))
    => /\ last.result = DenialMsg(CommandWord(last.c.message))
       /\ last.ran = ""
       /\ last.post = last.pre

\* a non-master on Twitch is denied the knowledge command after the master
\* has changed the persona
C1_Witness ==
    /\ FinishedCall
    /\ last.c.entry = "process_message"
    /\ last.c.platform = "twitch"
    /\ last.c.username = "dmaster"
    /\ CommandWord(last.c.message) = "knowledge"
    /\ last.result = DenialMsg("knowledge")
    /\ last.pre.persona = "streamer"

\* C2: through no entry point (the adapters' registered commands or
\* process_message) does a message of a user who is not the master of the
\* platform change the current persona or the current language.
C2_NonMasterNeverChangesPersonaOrLanguage ==
    (FinishedCall /\ ~SentByMaster(last.c))
    => /\ last.post.persona = last.pre.persona
       /\ last.post.language = last.pre.language

\* C3: every history has at most 20 turns, and it holds the most recently
\* stored turns of its key in the order they were stored (a full history
\* loses its oldest turn).
C3_HistoryBoundedFifo ==
    \A k \in Keys :
        LET h == conversation_history[k]
            all == stored[k]
        IN  /\ Len(h) <= 20
            /\ Len(h) = IF Len(all) <= 20 THEN Len(all) ELSE 20
            /\ \A i \in 1..Len(h) : h[i] = all[Len(all) - Len(h) + i]

\* a key under which 22 turns were stored, so that two were evicted
C3_Witness ==
    \E k \in Keys :
        /\ Len(stored[k]) = 22
        /\ Len(conversation_history[k]) = 20
        /\ conversation_history[k][1].msg = 3

GRFinished == gr_pc \in {"returned", "raised"}

\* C4: against every sequence of backend outcomes generate_response makes at
\* most 3 attempts, returns a text (an answer or an apology) and never raises.
C4_ReturnsTextNeverRaises ==
    /\ Len(gr_log) <= 3
    /\ gr_pc # "raised"
    /\ gr_pc = "returned" => gr_ret \in GRTexts

AllTimeouts == \A i \in 1..Len(gr_log) : gr_log[i].kind = "timeout"

\* C5: when every attempt times out, exactly 3 attempts are made, the waits
\* are 1 and then 2 time units with no wait after the last attempt, and the
\* timeout apology is returned.
C5_TimeoutBackoff ==
    /\ (GRFinished /\ AllTimeouts)
       => /\ gr_pc = "returned"
          /\ Len(gr_log) = 3
          /\ gr_sleeps = <<1, 2>>
          /\ gr_ret = APOLOGY_TIMEOUT
    /\ (~GRFinished /\ AllTimeouts)
       => /\ Len(gr_log) < 3
          /\ gr_sleeps = SubSeq(<<1, 2>>, 1, Len(gr_sleeps))

C5_Witness ==
    /\ gr_pc = "returned"
    /\ Len(gr_log) = 3
    /\ AllTimeouts

\* the failure class of a backend outcome
FailureClass(o) ==
    CASE o.kind = "timeout" -> "timeout"
      [] o.kind = "connerr" -> "connection"
      [] o.kind = "http" /\ o.status # 200 -> "http"
      [] o.kind = "http" /\ o.status = 200 /\ o.body \in {"content", "blank"} -> "success"
      [] OTHER -> "malformed"

ApologyFor(class) ==
    CASE class = "timeout" -> APOLOGY_TIMEOUT
      [] class = "connection" -> APOLOGY_CLIENT
      [] class = "malformed" -> APOLOGY_UNSURE
      [] class = "http" -> APOLOGY_HTTP

\* C6: when all three attempts fail, the apology of the failure class of the
\* last attempt is returned, and the apologies of timeout, connection error
\* and malformed response are pairwise different.
C6_ApologyByLastFailureClass ==
    /\ Cardinality({APOLOGY_TIMEOUT, APOLOGY_CLIENT, APOLOGY_UNSURE}) = 3
    /\ (/\ GRFinished
        /\ Len(gr_log) = 3
        /\ \A i \in 1..3 : FailureClass(gr_log[i]) # "success")
       => /\ gr_pc = "returned"
          /\ gr_ret = ApologyFor(FailureClass(gr_log[3]))

\* C7: a message that begins with the command prefix is handled by
\* handle_command alone: no stage of the LLM path (intent classification,
\* trigger detection, classifier, handle_ai_request) is reached, also when
\* the text holds the trigger phrase, and the command's reply is returned.
C7_CommandNeverReachesLlmPath ==
    /\ (/\ FinishedCall
        /\ last.c.entry = "process_message"
        /\ IsPrefixed(last.c.message))
       => /\ last.path = {}
          /\ last.ran \in {"", CommandWord(last.c.message)}
          /\ last.result # None
    /\ \A t \in tasks :
          (t.c.entry = "process_message" /\ IsPrefixed(t.c.message))
          => t.path = {} /\ t.cont \in {"command_ai", "ask"}

\* the ai command with the trigger phrase in its text was answered by
\* command_ai
C7_Witness ==
    /\ FinishedCall
    /\ last.c.entry = "process_message"
    /\ last.c.message = <<"!", "ai", "@bot", "hi">>
    /\ last.ran = "ai"
    /\ last.result = <<"answer">>
    /\ last.path = {}

\* C8: a call of process_message that returns a non-empty response appended
\* exactly one Assistant turn; a call that returns None or an empty text
\* appended none.
C8_OneAssistantTurnPerResponse ==
    (FinishedCall /\ last.c.entry = "process_message" /\ last.result # Raised)
    => /\ Truthy(last.result) => last.asst = 1
       /\ ~Truthy(last.result) => last.asst = 0

\* C9: once no ask command is in flight, the current persona is the one set
\* by the most recent successful persona command (the initial default if
\* there was none).
C9_AskLeavesPersonaAsFound ==
    (\A t \in tasks : t.cont # "ask") => current_persona = persona_cmd

\* C10: in every history the turns of an earlier message come before the
\* turns of a later message of the same key.
C10_TurnsInArrivalOrder ==
    \A k \in Keys :
        \A i, j \in 1..Len(conversation_history[k]) :
            i < j => conversation_history[k][i].msg <= conversation_history[k][j].msg

\* the backend content a consumer of the generator has been handed, joined
RECURSIVE YieldedContent(_)
YieldedContent(ys) ==
    IF ys = <<>> THEN <<>>
    ELSE (IF Head(ys).kind = "content" THEN Head(ys).text ELSE <<>>) \o YieldedContent(Tail(ys))

\* C11: when the stream ends without a transport or decoding error, with or
\* without a done:true line, the fragments of backend content yielded by
\* generate_response_stream, joined in order, are all the non-empty
\* message.content values received, joined in arrival order.
C11_StreamReconstructsResponse ==
    (stream.pc = "ended" /\ ~stream.failed)
    => YieldedContent(stream.yields) = stream.received

\* C12: an error after k fragments makes the generator yield exactly one more
\* fragment, the apology, and end without raising; the k earlier fragments
\* stay as they were.
C12_StreamErrorYieldsOneApology ==
    stream.failed
    => /\ stream.pc = "ended"
       /\ Len(stream.yields) = Len(stream.before) + 1
       /\ SubSeq(stream.yields, 1, Len(stream.before)) = stream.before
       /\ stream.yields[Len(stream.yields)].kind = "apology"

\* C13: every fragment yielded by generate_response_stream other than the
\* last one has at least 4 characters.
C13_FragmentsHaveMinimumSize ==
    \A i \in 1..(Len(stream.yields) - 1) :
        stream.yields[i].kind = "content" => Len(stream.yields[i].text) >= 4

C15_ClassifierFailsClosed ==
    (/\ am.pc # "call"
     /\ \/ am.outcome.kind \in {"timeout", "connerr"}
        \/ am.outcome.status # 200
        \/ am.outcome.body \in {"wrongtype", "notjson", "noresponse", "null"})
    => /\ am.pc = "returned"
       /\ ~am.result.should_respond
       /\ am.result.response = None

ApologyLanguage(a) == IF a \in Apologies \cup {APOLOGY_STREAM_TIMEOUT} THEN "spanish" ELSE "english"

\* C17: when generate_response ends in failure, the apology handed to the
\* user is in the language that is current at that moment.
C17_ApologyInCurrentLanguage ==
    (FinishedCall /\ \E a \in Apologies : last.result = <<a>>)
    => \A a \in Apologies :
          last.result = <<a>> => ApologyLanguage(a) = last.post.language

SegmentRank(kind) ==
    CASE kind = "language" -> 1
      [] kind = "persona" -> 2
      [] kind = "guidance" -> 3
      [] kind = "knowledge" -> 4
      [] kind = "memory" -> 5
      [] kind = "final_language" -> 6

\* C18: in the system prompt of generate_response and
\* generate_response_stream the segments language directive, persona text,
\* behavioural guidance, knowledge blocks, memory-context block and final
\* restatement of the language directive stand in this order; the memory
\* block precedes the final restatement, which is the last of them.
C18_PromptSegmentOrder ==
    system_prompt # NoPrompt
    => LET IsListed(seg) == seg.kind # "platform"
           listed == SelectSeq(system_prompt.segments, IsListed)
       IN  /\ \A i, j \in 1..Len(listed) :
                 i < j => SegmentRank(listed[i].kind) <= SegmentRank(listed[j].kind)
           /\ listed[Len(listed)].kind = "final_language"

\* C19: while a handler is inside a MemoryStore call or an LLM call, the
\* handler of every other in-flight message that is ready to run (a new
\* message, or one whose LLM call can return) can take its next step.
C19_CallsAreSuspensionPoints ==
    \A h, g \in Handlers :
        (h # g /\ loop.at[h] \in MemoryCalls \cup {"llm"})
        => /\ loop.at[g] = "new" => ENABLED LoopStart(g)
           /\ loop.at[g] = "llm" => ENABLED LoopLlmReturns(g)

\* C20: when a message that is not a command has got an assistant reply, on
\* any platform and through any entry point, the key's history holds the
\* message's text as a User turn before the reply's Assistant turn.
C20_UserTurnBeforeAssistantTurn ==
    (FinishedCall /\ ~IsPrefixed(last.c.message) /\ last.asst = 1)
    => LET h == conversation_history[<<last.c.username, last.c.channel_id>>]
       IN  \A j \in 1..Len(h) :
              (h[j].role = "Assistant" /\ h[j].msg = last.c.id)
              => \E i \in 1..(j - 1) :
                    /\ h[i].role = "User"
                    /\ h[i].msg = last.c.id
                    /\ h[i].content = last.c.message

\* the strings of a message
Mentions(msg) == {msg[i] : i \in 1..Len(msg)}

\* C21: set_persona with a name that is not in the persona table leaves
\* current_persona as it was, reports failure and returns a message listing
\* every name of the table; with a name of the table it reports success and
\* current_persona is that name.
C21_SetPersonaValidatesName ==
    client_ret.call = "set_persona"
    => IF client_ret.arg \in AI_PERSONAS
       THEN client_ret.ok /\ current_persona = client_ret.arg
       ELSE /\ ~client_ret.ok
            /\ current_persona = client_ret.before
            /\ AI_PERSONAS \subseteq Mentions(client_ret.msg)

\* an unknown name was refused while another persona than the default was current
C21_Witness ==
    /\ client_ret.call = "set_persona"
    /\ client_ret.arg = "pirate"
    /\ ~client_ret.ok
    /\ current_persona = "expert"

\* C22: whatever the query, the collection choice, the filter and the limit,
\* search_memory returns only results whose similarity is at least the
\* configured threshold, in order of non-increasing similarity, and at most
\* limit of them (at most the configured maximum when no limit is given).
C22_SearchResultsFilteredSortedLimited ==
    ms.pc = "returned"
    => /\ \A i \in 1..Len(ms.results) :
             ms.results[i].similarity >= MEMORY_SIMILARITY_THRESHOLD
       /\ \A i \in 1..Len(ms.results), j \in 1..Len(ms.results) :
             i < j => ms.results[i].similarity >= ms.results[j].similarity
       /\ Len(ms.results) <= (IF ms.limit.given THEN ms.limit.n ELSE MEMORY_MAX_RESULTS)

\* the records of a collection with the given content and identity
RecordsOf(collection, content, who) ==
    {i \in 1..Len(collection) : collection[i].content = content /\ collection[i].who = who}

TargetOf(op) ==
    IF op = "store_conversation" THEN MEMORY_COLLECTION_CONVERSATIONS
    ELSE MEMORY_COLLECTION_KNOWLEDGE

\* the last two calls stored the same content with the same identity
StoredTwice ==
    /\ mm.enabled
    /\ mm.call.op \in {"store_conversation", "add_knowledge"}
    /\ mm.prev.op = mm.call.op
    /\ mm.prev.content = mm.call.content
    /\ mm.prev.who = mm.call.who

\* C23 (as stated): storing the same content with the same identity twice
\* leaves exactly one record for it in the target collection: the first call
\* inserts and returns true, the second inserts nothing and returns false.
C23_StoredExactlyOnce ==
    StoredTwice
    => /\ mm.prev.ret = TRUE
       /\ mm.call.ret = FALSE
       /\ Cardinality(RecordsOf(mm[TargetOf(mm.call.op)], mm.call.content, mm.call.who)) = 1

\* C23 (amended): the same, when before the first call the target collection
\* held no record whose similarity to the content reached the threshold.
C23_StoredExactlyOnceWhenNew ==
    (StoredTwice /\ ~mm.prev.similar_before)
    => /\ mm.prev.ret = TRUE
       /\ mm.call.ret = FALSE
       /\ Cardinality(RecordsOf(mm[TargetOf(mm.call.op)], mm.call.content, mm.call.who)) = 1

\* a text was stored twice into a collection that held another, dissimilar text
C23_Witness ==
    /\ StoredTwice
    /\ ~mm.prev.similar_before
    /\ mm.call.op = "store_conversation"
    /\ Len(mm.conversations) = 2

\* C24: a MemoryManager that is disabled (dependencies missing, disabled in
\* the configuration, or initialisation failed) answers every operation with
\* its empty result and never touches the engine.
C24_DisabledMemoryIsNoOp ==
    (mm.pc = "ready" /\ ~mm.enabled)
    => /\ mm.engine_ops = 0
       /\ mm.conversations = <<>> /\ mm.knowledge = <<>>
       /\ mm.call.op \in {"store_conversation", "add_knowledge"} => mm.call.ret = FALSE
       /\ mm.call.op \in {"search_memory", "get_relevant_context"} => mm.call.ret = <<>>
       /\ mm.call.op = "import_knowledge_from_file" => mm.call.ret = <<0, 0>>

\* a manager whose initialisation failed was asked to import an existing file
\* after a store
C24_Witness ==
    /\ mm.outcome = "init_failed"
    /\ mm.prev.op = "store_conversation"
    /\ mm.call.op = "import_knowledge_from_file"
    /\ mm.call.content = "faq.txt"

\* the message is the trigger phrase, in any letter case, between whitespace
OnlyTrigger(message) ==
    \E k \in 1..Len(message) :
       /\ k + Len(AI_TRIGGER_PHRASE_chars) - 1 <= Len(message)
       /\ \A i \in 1..Len(message) :
             IF i < k \/ i >= k + Len(AI_TRIGGER_PHRASE_chars) THEN message[i] = " "
             ELSE LowerChars(message)[i] = AI_TRIGGER_PHRASE_chars[i - k + 1]

\* C25: the cleaned message that handle_ai_request and
\* handle_ai_request_stream pass to the memory store and to the LLM client is
\* never empty, and it is the greeting placeholder when the message is only
\* the trigger phrase (in any letter case) and whitespace around it.
C25_CleanedMessageNeverEmpty ==
    cm.pc = "handed"
    => /\ cm.to_memory # <<>>
       /\ cm.to_llm # <<>>
       /\ OnlyTrigger(cm.message)
          => cm.to_memory = GreetingPlaceholder /\ cm.to_llm = GreetingPlaceholder

\* the streaming function was given the phrase in capitals after a blank
C25_Witness ==
    /\ cm.pc = "handed"
    /\ cm.streaming
    /\ cm.message = <<" ", "@", "B", "o", "t">>
    /\ cm.to_llm = GreetingPlaceholder

\* C26: _split_text on a text longer than chunk_size gives chunks of at most
\* chunk_size characters each, every chunk after the first begins exactly
\* overlap characters before the end of the chunk before it, so that the two
\* share those overlap characters, and a text of 1200 characters cut with
\* chunk_size 500 and overlap 50 gives at least 3 chunks.
C26_ChunksBoundedAndOverlapping ==
    (sx.pc = "returned" /\ Len(sx.text) > sx.chunk_size)
    => /\ \A i \in 1..Len(sx.chunks) :
             /\ sx.chunks[i].end - sx.chunks[i].start <= sx.chunk_size
             /\ sx.chunks[i].end - sx.chunks[i].start >= 1
       /\ \A i \in 1..(Len(sx.chunks) - 1) :
             /\ sx.chunks[i + 1].start = sx.chunks[i].end - sx.overlap
             /\ sx.chunks[i + 1].start >= sx.chunks[i].start
             /\ sx.chunks[i + 1].end - sx.chunks[i + 1].start >= sx.overlap
       /\ sx.chunks[1].start = 0
       /\ sx.chunks[Len(sx.chunks)].end = Len(sx.text)
       /\ (Len(sx.text) = LongTextLen /\ sx.chunk_size = 500 /\ sx.overlap = 50)
          => Len(sx.chunks) >= 3

\* a text of 1200 characters was cut at a sentence boundary
C26_Witness ==
    /\ sx.pc = "returned"
    /\ Len(sx.text) = LongTextLen
    /\ sx.chunks[1].end = 451
    /\ Len(sx.chunks) >= 4

\* C27: the prompt of a request that is not an ask command is built with the
\* persona of the last successful persona command (the initial default if
\* there was none), never with the persona an ask command in flight has
\* selected for its own question.
C27_NormalRequestUsesCommandedPersona ==
    \A t \in tasks :
        t.cont \in {"handle_ai_request", "command_ai", "stream"}
        => t.persona_used = t.pcmd

\* C28: an attempt of generate_response that receives a non-200 status never
\* supplies the value returned: when attempts remain the client waits and
\* makes the next attempt, and on the last attempt it returns the
\* connection-error apology.
C28_Non200NeverSuppliesTheText ==
    \A i \in 1..Len(gr_log) :
        (gr_log[i].kind = "http" /\ gr_log[i].status # 200)
        => IF i = max_retries + 1
           THEN gr_pc = "returned" /\ gr_ret = APOLOGY_HTTP
           ELSE i < Len(gr_log) \/ gr_pc = "sleep"

\* C29: when handle_ai_request_stream has been consumed to its end, exactly
\* one Assistant turn has been appended to the key's history, it is the last
\* turn there, and its content is the concatenation of the fragments yielded.
C29_StreamStoresOneAssistantTurn ==
    (/\ FinishedCall
     /\ "handle_ai_request_stream" \in last.path
     /\ last.result # Raised)
    => LET h == conversation_history[<<last.c.username, last.c.channel_id>>]
       IN  /\ last.asst = 1
           /\ h # <<>>
           /\ h[Len(h)].role = "Assistant"
           /\ h[Len(h)].msg = last.c.id
           /\ h[Len(h)].content = last.result

\* C30: when on_message has finished without a send or edit error, the text
\* of the bot's message in the channel is the concatenation of all fragments
\* of the response.
C30_ChannelShowsWholeResponse ==
    (dc.pc = "returned" /\ ~dc.failed /\ dc.collected_response # <<>>)
    => dc.channel = dc.collected_response

\* the identity platform mentions of this bot carry, known to the handler or not
OwnMention == <<"<", "@", "1", ">">>
OtherMention == <<"<", "@", "2", ">">>

\* some part of the message is, letter case aside, the trigger phrase, the
\* phrase without its leading '@', or the phrase without its whitespace
HoldsPhrase(message) ==
    LET phrase == AI_TRIGGER_PHRASE_chars
        forms == {LowerChars(phrase),
                  LowerChars(IF Head(phrase) = "@" THEN Tail(phrase) ELSE phrase),
                  LowerChars(Remove(phrase, <<" ">>))}
    IN  \E i \in 1..Len(message), j \in 1..Len(message) :
           i <= j /\ LowerChars(SubSeq(message, i, j)) \in forms

RoutedElsewhere ==
    /\ rt.pc # "call"
    /\ rt.platform # "discord"
    /\ ~HasPrefix(rt.message, BOT_PREFIX_chars)

\* C31: on a platform other than discord, with AI responses enabled, a
\* message that is no command and holds the trigger phrase in any letter
\* case, the phrase without its leading '@' or the phrase without its
\* whitespace makes process_message call handle_ai_request (and not the
\* classifier), whatever the random draw, and process_message returns what
\* handle_ai_request returned.
C31_TriggerPhraseForcesAiRequest ==
    (RoutedElsewhere /\ ENABLE_AI_RESPONSE /\ HoldsPhrase(rt.message))
    => /\ rt.calls = <<"handle_ai_request">>
       /\ rt.pc = "returned" => rt.result = rt.inner

\* the phrase in another letter case, the draw not taken, the answer returned
C31_Witness ==
    /\ rt.pc = "returned"
    /\ rt.platform = "twitch"
    /\ rt.message = <<"x", "@", "B", "o", "t">>
    /\ ~rt.draw
    /\ rt.calls = <<"handle_ai_request">>
    /\ rt.result = <<"answer">>

\* C32: a message that is no command, holds no trigger phrase and mentions
\* another identity than this bot's own does not make process_message call
\* handle_ai_request, whether the handler knows the bot's own id or not.
C32_OnlyOwnMentionTriggers ==
    (/\ RoutedElsewhere
     /\ ~phrase_in_message(rt.message)
     /\ Contains(rt.message, OtherMention)
     /\ ~Contains(rt.message, OwnMention))
    => ~InSeq("handle_ai_request", rt.calls)

\* C33: on a platform other than discord, for a message that is no command
\* and did not trigger, process_message returns a reply only if the draw was
\* below the probability and the classifier returned (true, non-empty
\* suggestion), the reply is that suggestion, in every other case it returns
\* None, and the classifier is not called when the draw was not below the
\* probability.
C33_ReplyOnlyOnDrawAndClassifierYes ==
    (RoutedElsewhere /\ ~is_triggered_chars(rt.message, rt.bot_id))
    => /\ ~rt.draw => ~InSeq("analyze_message", rt.calls)
       /\ rt.pc = "returned" =>
             IF /\ rt.draw
                /\ rt.verdict.should_respond
                /\ rt.verdict.response \notin {None, <<>>}
             THEN rt.calls = <<"analyze_message">> /\ rt.result = rt.verdict.response
             ELSE rt.result = None

\* the draw was taken, the classifier said yes and its suggestion was returned
C33_Witness ==
    /\ rt.pc = "returned"
    /\ rt.platform = "twitch"
    /\ rt.message = <<"x">>
    /\ rt.draw
    /\ rt.calls = <<"analyze_message">>
    /\ rt.result = <<"suggestion">>

\* C34: on discord with intent detection enabled, when the intent detector
\* answers should-respond with a non-empty configured response for a message
\* that is no command, process_message returns that response at once (no
\* await, so no task stays suspended), the history of the key grows by the
\* User turn and exactly one Assistant turn holding the response, and
\* neither the LLM path nor the memory manager is entered.
C34_IntentResponseReturnedAtOnce ==
    [][\A m \in Texts, u \in Usernames, ch \in ChannelIds, a \in IntentAnalyses :
          (/\ ENABLE_INTENT_DETECTION
           /\ ~StartsWithPrefix(m)
           /\ a.should_respond /\ Truthy(a.response)
           /\ ProcessMessage(m, u, ch, "discord", a, FALSE))
          => LET c == Call("process_message", "discord", u, ch, m)
                 h1 == store_message(conversation_history, u, ch, UserTurn(c))
             IN  /\ last'.c = c
                 /\ last'.result = a.response
                 /\ last'.asst = 1
                 /\ last'.path = {"intent"}
                 /\ last'.ran = ""
                 /\ tasks' = tasks
                 /\ conversation_history' =
                       store_message(h1, u, ch, AssistantTurn(c, a.response))
                 /\ mm' = mm]_vars

\* a discord message answered from the intent detector's configured response
C34_Witness ==
    /\ last.c.entry = "process_message"
    /\ last.c.platform = "discord"
    /\ last.c.message = <<"hi">>
    /\ last.path = {"intent"}
    /\ last.result = <<"intent-response">>
    /\ last.asst = 1

\* the guidelines a document gives: a section it lacks, and a document that
\* is absent and cannot be created or cannot be read, give none
SectionOf(doc, language, present) ==
    IF doc.kind = "doc" /\ present THEN language ELSE "none"

\* C35: after a successful language command to L, the channel guidelines
\* and the default guidelines in memory are exactly those of L's document
\* (none where the document has no such section or could not be loaded), the
\* detector's language is the client's current language, and nothing loaded
\* for the previous language is still in effect.
C35_LanguageSwitchReloadsGuidelines ==
    (gd.pc = "ready" /\ gd.command.ok)
    => LET L == gd.command.arg
           doc == gd.files[L]
       IN  /\ gd.client_language = L
           /\ gd.current_language = gd.client_language
           /\ gd.channel_guidelines = SectionOf(doc, L, doc.channels)
           /\ gd.default_guidelines = SectionOf(doc, L, doc.default)

\* s without x, the others in their order
Without(s, x) == SelectSeq(s, LAMBDA y : y # x)

\* C36: the active-knowledge list never holds a name twice, from the
\* start-up activation on; activate_knowledge appends a name that names a
\* file and is not active and otherwise leaves the list as it was, and
\* deactivate_knowledge takes an active name out, the others keeping their
\* order, and leaves the list as it was for a name that is not active.
C36_ActiveKnowledgeOrderedSet ==
    /\ \A i, j \in 1..Len(active_knowledge) :
          active_knowledge[i] = active_knowledge[j] => i = j
    /\ client_ret.call = "activate_knowledge" =>
          active_knowledge =
             IF client_ret.arg \in KnowledgeFiles /\ ~InSeq(client_ret.arg, client_ret.before)
             THEN Append(client_ret.before, client_ret.arg)
             ELSE client_ret.before
    /\ client_ret.call = "deactivate_knowledge" =>
          active_knowledge =
             IF InSeq(client_ret.arg, client_ret.before)
             THEN Without(client_ret.before, client_ret.arg)
             ELSE client_ret.before

\* a file deactivated and activated again stands behind the one that stayed
C36_Witness ==
    /\ client_ret.call = "activate_knowledge"
    /\ client_ret.arg = "k1"
    /\ client_ret.before = <<"k2">>
    /\ active_knowledge = <<"k2", "k1">>

\* C37: a knowledge file that is not active becomes active only by an
\* activate_knowledge call that names it, so a file that was deactivated
\* stays inactive across requests, also when it was the only active file.
C37_DeactivatedStaysInactive ==
    [][\A k \in KnowledgeFiles :
          (~InSeq(k, active_knowledge) /\ InSeq(k, active_knowledge'))
          => (client_ret'.call = "activate_knowledge" /\ client_ret'.arg = k)]_vars

\* C38: on a platform front end, an admin command (persona, language,
\* languages, knowledge, knowledges, memory, intent) sent with the prefix by
\* the master user of that platform reaches the handler of that command: it
\* is neither dropped nor denied.
C38_MasterReachesEveryAdminCommand ==
    (/\ FinishedCall
     /\ last.c.entry \in {"discord_adapter", "twitch_adapter"}
     /\ SentByMaster(last.c)
     /\ IsPrefixed(last.c.message)
     /\ CommandWord(last.c.message) \in admin_commands)
    => /\ last.ran = CommandWord(last.c.message)
       /\ last.result # None
       /\ last.result # DenialMsg(CommandWord(last.c.message))

\* C39: when process_message reaches handle_ai_request, the messages list of
\* the request is the turns the key's history held before this message
\* arrived, in history order, followed by the current user message, which
\* so stands in the list exactly once, as its last element.
C39_CurrentMessageSentOnce ==
    [][\A t \in tasks' \ tasks :
          (t.cont = "handle_ai_request" /\ t.c.entry \in {"process_message", "twitch_adapter"})
          => LET earlier == get_conversation_history(conversation_history,
                                                     t.c.username, t.c.channel_id)
                 current == [role |-> "user", content |-> clean_lexemes(t.c.message)]
             IN  t.sent = [i \in 1..Len(earlier) |->
                              [role |-> IF earlier[i].role = "User" THEN "user"
                                        ELSE "assistant",
                               content |-> earlier[i].content]]
                          \o <<current>>]_vars

\* the loop ends and the chunks, in order, leave no character out
SplitTerminatesAndCovers ==
    sx.pc = "returned"
    => /\ Len(sx.chunks) >= 1
       /\ Len(sx.chunks) <= Len(sx.text) + 1
       /\ sx.chunks[1].start = 0
       /\ sx.chunks[Len(sx.chunks)].end = Len(sx.text)
       /\ \A i \in 1..(Len(sx.chunks) - 1) :
             /\ sx.chunks[i + 1].start > sx.chunks[i].start
             /\ sx.chunks[i + 1].start <= sx.chunks[i].end

\* C40: for every text, every chunk_size >= 1 and every overlap >= 0, also
\* an overlap of chunk_size or more, _split_text ends, its chunks in order
\* leave no character of the text out, and no chunk lies entirely inside the
\* chunk before it.
C40_SplitEndsCoversNoNestedChunk ==
    /\ SplitTerminatesAndCovers
    /\ sx.pc = "returned"
       => \A i \in 1..(Len(sx.chunks) - 1) :
             ~(/\ sx.chunks[i + 1].start >= sx.chunks[i].start
               /\ sx.chunks[i + 1].end <= sx.chunks[i].end)

====
